---- MODULE Spec2Model ----
(***************************************************************************)
(* Model of skills/ai-daily/scripts/ai_daily.py: the feed ingestion and AI *)
(* curation pipeline (fetch -> time filter -> scoring -> ranking ->        *)
(* summarization -> highlights -> report).                                 *)
(*                                                                         *)
(* Python values whose type the code does not control (fields of the AI's  *)
(* JSON answer) are tagged records [t |-> type, v |-> payload].            *)
(* Python's 0-based positions are kept: the article at position p of a     *)
(* TLA+ sequence has index p - 1.                                          *)
(***************************************************************************)
EXTENDS Integers, Sequences, FiniteSets, TLC

\* ------------------------------------------------------------------------
\* Program constants
\* ------------------------------------------------------------------------
FEED_CONCURRENCY == 10
BATCH_SIZE == 10
MAX_CONCURRENT_REQUESTS == 2
DefaultHours == 24
DefaultTopN == 15
VALID_CATEGORIES == {"ai-ml", "security", "engineering", "tools", "opinion", "other"}

\* ------------------------------------------------------------------------
\* Bounds of the model
\* ------------------------------------------------------------------------
NumFeeds == 3          \* feeds in the catalog
MaxEntries == 2        \* entries in one feed document
MaxClockSkew == 1      \* start hours of the run: DefaultHours .. DefaultHours + MaxClockSkew
MaxFetched == 2        \* articles handed to the time filter when it is checked alone
MaxArticles == 21      \* time-filtered articles handed to the scoring stage

Feeds == 1..NumFeeds

VARIABLES
    pc,                 \* position of main_async
    clock,              \* datetime.now(timezone.utc), in hours
    args_hours,         \* --hours
    args_top_n,         \* --top-n
    openai_api_key,     \* OPENAI_API_KEY after strip(): "" when unset or blank
    fut,                \* fetch_all_feeds: state of each feed's future
    net,                \* what the network answered for each feed (None before)
    fut_result,         \* value or exception each finished future holds
    collected,          \* futures already yielded by as_completed
    all_articles,
    success_count,
    fail_count,
    recent_articles,
    wave_i,             \* loop variable i of the wave loop
    tasks,              \* the tasks of the latest asyncio.gather, until summarize_articles returns
    all_scores,
    scored_articles,
    top_articles_data,
    summaries,
    final_articles,
    highlights,
    report,
    issued,             \* AI calls sent so far, as [stage, batch]
    settled,            \* AI calls that have returned or raised
    n_calls             \* number of AI calls sent so far

vars == <<pc, clock, args_hours, args_top_n, openai_api_key, fut, net, fut_result, collected,
          all_articles, success_count, fail_count, recent_articles,
          wave_i, tasks, all_scores, scored_articles, top_articles_data,
          summaries, final_articles, highlights, report, issued, settled, n_calls>>

fetchVars == <<fut, net, fut_result, collected, all_articles, success_count, fail_count>>
aiVars == <<wave_i, tasks, all_scores, scored_articles, top_articles_data,
            summaries, final_articles, highlights, report, issued, settled, n_calls>>
callVars == <<issued, settled, n_calls>>

None == [t |-> "null", v |-> 0]

\* the empty string, as a text value [t, v]
EmptyText == [t |-> "empty", v |-> 0]

\* a Python dict is a function from its keys; {} is the function of no key
EmptyDict == <<>>

Min(a, b) == IF a < b THEN a ELSE b
Max(a, b) == IF a > b THEN a ELSE b

\* s[:n] of Python for a sequence s and any integer n
Slice(s, n) ==
    IF n >= 0 THEN SubSeq(s, 1, Min(n, Len(s)))
    ELSE SubSeq(s, 1, Max(Len(s) + n, 0))

\* ------------------------------------------------------------------------
\* Dates.  A date string is [fmt, wall, off]: the layout it is written in,
\* the wall-clock hour it shows and the UTC offset it shows (0 when the
\* layout has none).  A datetime is [wall, aware, off].
\* ------------------------------------------------------------------------
Naive(w) == [wall |-> w, aware |-> FALSE, off |-> 0]
Aware(w, o) == [wall |-> w, aware |-> TRUE, off |-> o]

\* the instant a datetime denotes, in UTC hours (naive values are read as UTC)
Instant(dt) == dt.wall - dt.off

\* datetime.replace(tzinfo=timezone.utc): keeps the wall clock, drops the offset
ReplaceTzUtc(dt) == Aware(dt.wall, 0)


parse_date(ds) ==
    CASE ds.fmt = "empty"    -> None                     \* if not date_str
      [] ds.fmt = "rfc_gmt"  -> Naive(ds.wall)           \* %Z: GMT / UTC
      [] ds.fmt = "rfc_num"  -> Aware(ds.wall, ds.off)   \* %z
      [] ds.fmt = "rfc_none" -> Naive(ds.wall)
      [] ds.fmt = "iso_off"  -> Aware(ds.wall, ds.off)   \* %z, 'Z' included
      [] ds.fmt = "iso_none" -> Naive(ds.wall)
      [] ds.fmt = "date"     -> Naive(ds.wall)
      [] ds.fmt = "rfc_zone" -> Aware(ds.wall, ds.off)   \* parsedate_to_datetime
      [] OTHER               -> None

\* parse_date(pub_date_str) or datetime.now(timezone.utc)
PubDate(ds, now) == IF parse_date(ds) = None THEN Aware(now, 0) ELSE parse_date(ds)

NoDate == [fmt |-> "empty", wall |-> 0, off |-> 0]

\* ------------------------------------------------------------------------
\* Feed documents and parse_feed_xml.  A document is the sequence of its
\* entries; title and link are 0 when empty.
\* ------------------------------------------------------------------------
Entry(j) == [title |-> j, link |-> j, desc |-> j, date |-> NoDate]

Docs == {[j \in 1..k |-> Entry(j)] : k \in 0..MaxEntries}

\* a date at hour 0 of the model's clock, written with a GMT zone name
StaleDate == [fmt |-> "rfc_gmt", wall |-> 0, off |-> 0]

\* documents a whole run is checked against besides Docs: one stale entry, and
\* enough undated entries to fill more than one wave of batches
StaleDoc == <<[title |-> 1, link |-> 1, desc |-> 1, date |-> StaleDate]>>
LargeDoc == [j \in 1..MaxArticles |-> Entry(j)]
RunDocs == {StaleDoc, LargeDoc}

MkArticle(f, e, now) ==
    [source_name |-> f, title |-> e.title, link |-> e.link,
     description |-> e.desc, pub_date |-> PubDate(e.date, now)]

RECURSIVE ParseEntries(_, _, _)
ParseEntries(entries, f, now) ==
    IF entries = <<>> THEN <<>>
    ELSE LET e == Head(entries)
             rest == ParseEntries(Tail(entries), f, now)
         IN IF e.title # 0 \/ e.link # 0
            THEN <<MkArticle(f, e, now)>> \o rest
            ELSE rest

\* result of a call: a returned value or a raised exception
Returned(x) == [raised |-> FALSE, value |-> x]
Raised == [raised |-> TRUE, value |-> <<>>]

\* what one feed's request meets
NetOutcomes ==
    {[kind |-> k, doc |-> <<>>] : k \in {"network", "timeout", "http", "badxml", "parseraise"}}
    \cup {[kind |-> "ok", doc |-> d] : d \in Docs \cup RunDocs}

\* the answers fetch_all_feeds is checked against when it is checked alone
FetchOutcomes == {o \in NetOutcomes : o.doc \in Docs}

IsFailure(o) == o.kind # "ok"

parse_feed_xml(o, f, now) ==
    CASE o.kind = "badxml"     -> Returned(<<>>)     \* except ET.ParseError
      [] o.kind = "parseraise" -> Raised
      [] OTHER                 -> Returned(ParseEntries(o.doc, f, now))

fetch_feed_reraise(o, f, now) ==
    IF o.kind \in {"network", "timeout", "http"} THEN Raised
    ELSE parse_feed_xml(o, f, now)

fetch_feed(o, f, now) ==
    LET body == IF o.kind \in {"network", "timeout", "http"} THEN Raised
                ELSE parse_feed_xml(o, f, now)
    IN IF body.raised THEN Returned(<<>>)            \* except ...: return []
       ELSE body

\* ------------------------------------------------------------------------
\* fetch_all_feeds
\* ------------------------------------------------------------------------
Running == {f \in Feeds : fut[f] = "running"}

\* a pool thread takes a queued feed
WorkerStart(f) ==
    /\ pc = "fetch"
    /\ fut[f] = "pending"
    /\ Cardinality(Running) < FEED_CONCURRENCY
    /\ fut' = [fut EXCEPT ![f] = "running"]
    /\ UNCHANGED <<pc, clock, args_hours, args_top_n, openai_api_key, net, fut_result, collected,
                   all_articles, success_count, fail_count, recent_articles>>
    /\ UNCHANGED aiVars

WorkerFinishRetry(f) ==
    /\ pc = "fetch"
    /\ fut[f] = "running"
    /\ \E o \in NetOutcomes :
        /\ net' = [net EXCEPT ![f] = o]
        /\ fut_result' = [fut_result EXCEPT ![f] = fetch_feed(o, f, clock)]
        /\ fut' = [fut EXCEPT ![f] = IF IsFailure(o) THEN "pending" ELSE "done"]
    /\ UNCHANGED <<pc, clock, args_hours, args_top_n, openai_api_key, collected,
                   all_articles, success_count, fail_count, recent_articles>>
    /\ UNCHANGED aiVars

\* the thread runs fetch_feed to its end
WorkerFinish(f) ==
    /\ pc = "fetch"
    /\ fut[f] = "running"
    /\ \E o \in NetOutcomes :
        /\ net' = [net EXCEPT ![f] = o]
        /\ fut_result' = [fut_result EXCEPT ![f] = fetch_feed(o, f, clock)]
    /\ fut' = [fut EXCEPT ![f] = "done"]
    /\ UNCHANGED <<pc, clock, args_hours, args_top_n, openai_api_key, collected,
                   all_articles, success_count, fail_count, recent_articles>>
    /\ UNCHANGED aiVars

\* one iteration of `for i, future in enumerate(as_completed(futures), 1)`
Collect(f) ==
    /\ pc = "fetch"
    /\ fut[f] = "done"
    /\ f \notin collected
    /\ collected' = collected \cup {f}
    /\ IF fut_result[f].raised
       THEN /\ pc' = "crashed"                       \* future.result() re-raises
            /\ UNCHANGED <<all_articles, success_count, fail_count>>
       ELSE /\ pc' = pc
            /\ IF fut_result[f].value # <<>>
               THEN /\ all_articles' = all_articles \o fut_result[f].value
                    /\ success_count' = success_count + 1
                    /\ fail_count' = fail_count
               ELSE /\ fail_count' = fail_count + 1
                    /\ UNCHANGED <<all_articles, success_count>>
    /\ UNCHANGED <<clock, args_hours, args_top_n, openai_api_key, fut, net, fut_result, recent_articles>>
    /\ UNCHANGED aiVars

FetchReturnEarly ==
    /\ pc = "fetch"
    /\ collected # {}
    /\ pc' = "filter"
    /\ UNCHANGED <<clock, args_hours, args_top_n, openai_api_key, recent_articles>>
    /\ UNCHANGED fetchVars
    /\ UNCHANGED aiVars

\* return all_articles, success_count, fail_count
FetchReturn ==
    /\ pc = "fetch"
    /\ collected = Feeds
    /\ pc' = "filter"
    /\ UNCHANGED <<clock, args_hours, args_top_n, openai_api_key, recent_articles>>
    /\ UNCHANGED fetchVars
    /\ UNCHANGED aiVars

AIIdle ==
    /\ wave_i = 0
    /\ tasks = <<>>
    /\ all_scores = EmptyDict
    /\ scored_articles = <<>>
    /\ top_articles_data = <<>>
    /\ summaries = EmptyDict
    /\ final_articles = <<>>
    /\ highlights = EmptyText
    /\ report = None
    /\ issued = {}
    /\ settled = {}
    /\ n_calls = 0

InitFetch ==
    /\ pc = "fetch"
    /\ clock \in DefaultHours..(DefaultHours + MaxClockSkew)
    /\ args_hours \in {1, DefaultHours}
    /\ args_top_n = DefaultTopN
    /\ openai_api_key = "key"
    /\ fut = [f \in Feeds |-> "pending"]
    /\ net = [f \in Feeds |-> None]
    /\ fut_result = [f \in Feeds |-> None]
    /\ collected = {}
    /\ all_articles = <<>>
    /\ success_count = 0
    /\ fail_count = 0
    /\ recent_articles = <<>>
    /\ AIIdle

NextFetch ==
    \/ \E f \in Feeds : WorkerStart(f)
    \/ \E f \in Feeds : WorkerFinish(f) /\ net'[f] \in FetchOutcomes
    \/ \E f \in Feeds : Collect(f)
    \/ FetchReturn

SpecFetch == InitFetch /\ [][NextFetch]_vars

\* ------------------------------------------------------------------------
\* Time filter (main_async, step 2) and the two fatal exits around it
\* ------------------------------------------------------------------------
CutoffHour == clock - args_hours

\* a.pub_date.replace(tzinfo=timezone.utc) > cutoff_time
InWindow(a) == Instant(ReplaceTzUtc(a.pub_date)) > CutoffHour

FilterStepNoExit ==
    /\ pc = "filter"
    /\ recent_articles' = SelectSeq(all_articles, InWindow)
    /\ pc' = "score"
    /\ UNCHANGED <<clock, args_hours, args_top_n, openai_api_key>>
    /\ UNCHANGED fetchVars
    /\ UNCHANGED aiVars

FilterStep ==
    /\ pc = "filter"
    /\ IF all_articles = <<>>
       THEN /\ pc' = "exit1"
            /\ UNCHANGED recent_articles
       ELSE /\ recent_articles' = SelectSeq(all_articles, InWindow)
            /\ pc' = IF recent_articles' = <<>> THEN "exit1" ELSE "score"
    /\ UNCHANGED <<clock, args_hours, args_top_n, openai_api_key>>
    /\ UNCHANGED fetchVars
    /\ UNCHANGED aiVars

\* date strings around the cutoff, in every layout parse_date knows
Offsets == {-1, 0, 1}

DateStrs(cut) ==
    LET walls == (cut - 1)..(cut + 1) IN
    {[fmt |-> f, wall |-> w, off |-> 0] : f \in {"rfc_gmt", "rfc_none", "iso_none"}, w \in walls}
    \cup {[fmt |-> "date", wall |-> w, off |-> 0] : w \in {x \in walls : x % 24 = 0}}
    \cup {[fmt |-> f, wall |-> w, off |-> o] : f \in {"rfc_num", "iso_off"}, w \in walls, o \in Offsets}
    \cup {[fmt |-> "rfc_zone", wall |-> w, off |-> o] : w \in walls, o \in Offsets \ {0}}
    \cup {[fmt |-> "garbage", wall |-> 0, off |-> 0], NoDate}

\* the fetch phase has returned the articles of one feed; the others failed
InitFilter ==
    /\ pc = "filter"
    /\ clock \in DefaultHours..(DefaultHours + MaxClockSkew)
    /\ args_hours \in {1, DefaultHours}
    /\ args_top_n = DefaultTopN
    /\ openai_api_key = "key"
    /\ fut = [f \in Feeds |-> "done"]
    /\ \E k \in 0..MaxFetched :
         \E ds \in [1..k -> DateStrs(clock - args_hours)] :
            net = [f \in Feeds |->
                     IF f = 1
                     THEN [kind |-> "ok",
                           doc |-> [j \in 1..k |-> [title |-> j, link |-> j, desc |-> j, date |-> ds[j]]]]
                     ELSE [kind |-> "network", doc |-> <<>>]]
    /\ fut_result = [f \in Feeds |-> fetch_feed(net[f], f, clock)]
    /\ collected = Feeds
    /\ all_articles = fut_result[1].value
    /\ success_count = (IF all_articles # <<>> THEN 1 ELSE 0)
    /\ fail_count = NumFeeds - success_count
    /\ recent_articles = <<>>
    /\ AIIdle

NextFilter == FilterStep

SpecFilter == InitFilter /\ [][NextFilter]_vars

\* ------------------------------------------------------------------------
\* Properties of the fetch phase and of the time filter
\* ------------------------------------------------------------------------
ArticlesOf(f) == SelectSeq(all_articles, LAMBDA a : a.source_name = f)

\* C8: a feed whose fetch fails contributes zero articles and never aborts
\* fetch_all_feeds: the call returns, every feed has been fetched, and the
\* returned list holds every article parsed from every feed that did not fail.
C8_FailedFeedIsolated ==
    /\ pc # "crashed"
    /\ pc = "filter" =>
         /\ \A f \in Feeds : fut[f] = "done"
         /\ \A f \in Feeds :
              IF IsFailure(net[f])
              THEN ArticlesOf(f) = <<>>
              ELSE ArticlesOf(f) = ParseEntries(net[f].doc, f, clock)
         /\ \A i \in 1..Len(all_articles) : all_articles[i].source_name \in Feeds

C8_Witness ==
    /\ pc = "filter"
    /\ \E f, g \in Feeds :
         /\ IsFailure(net[f])
         /\ ~IsFailure(net[g])
         /\ Len(ArticlesOf(g)) = MaxEntries

\* C9: fetch_all_feeds returns failure count = number of feeds whose fetch
\* or parse failed, success count = number of feeds retrieved and parsed
\* without failure, and the two add up to the size of the catalog.
C9_CountsMatchOutcomes ==
    pc = "filter" =>
        /\ fail_count = Cardinality({f \in Feeds : IsFailure(net[f])})
        /\ success_count = Cardinality({f \in Feeds : ~IsFailure(net[f])})
        /\ success_count + fail_count = NumFeeds

\* C7: after the time filter no retained article was published at or before
\* the cutoff instant, whatever offset its timestamp carries.
C7_RetainedAfterCutoff ==
    pc = "score" =>
        \A i \in 1..Len(recent_articles) :
            Instant(recent_articles[i].pub_date) > CutoffHour

\* ------------------------------------------------------------------------
\* JSON values of an AI answer.  A scalar is [t, v]: t is its JSON/Python
\* type ("missing" when the key is absent), v an integer payload: the
\* number itself, tenths for a float, the number a numeric string spells.
\* ------------------------------------------------------------------------
JI(n) == [t |-> "int", v |-> n]
JFloat(tenths) == [t |-> "float", v |-> tenths]
JNumStr(n) == [t |-> "numstr", v |-> n]
JStr == [t |-> "str", v |-> 0]
JNull == [t |-> "null", v |-> 0]
JMissing == [t |-> "missing", v |-> 0]
JList == [t |-> "list", v |-> 0]

\* dict.get(key, default)
Get(field, default) == IF field.t = "missing" THEN default ELSE field

\* int(v)
PyInt(x) ==
    CASE x.t \in {"int", "bool", "numstr"} -> Returned(x.v)
      [] x.t = "float" -> Returned(IF x.v >= 0 THEN x.v \div 10 ELSE -((-x.v) \div 10))
      [] OTHER -> Raised                             \* ValueError / TypeError

clamp_unbounded(x) == PyInt(x)

\* clamp = lambda v: min(10, max(1, int(v)))
clamp(x) ==
    LET r == PyInt(x)
    IN IF r.raised THEN Raised ELSE Returned(Min(10, Max(1, r.value)))

\* dict keys: ints (a bool or an integral float hashes to the int it equals),
\* strings and other floats
IntKey(i) == [t |-> "int", v |-> i]

KeyOf(idx) ==
    CASE idx.t \in {"int", "bool"} -> Returned(IntKey(idx.v))
      [] idx.t = "float" -> Returned(IF idx.v % 10 = 0 THEN IntKey(idx.v \div 10) ELSE idx)
      [] idx.t \in {"str", "numstr"} -> Returned(idx)
      [] OTHER -> Raised                             \* unhashable

\* d[k] = x
DictSet(d, k, x) == [y \in DOMAIN d \cup {k} |-> IF y = k THEN x ELSE d[y]]

\* d.update(other)
DictUpdate(d, other) ==
    [y \in DOMAIN d \cup DOMAIN other |-> IF y \in DOMAIN other THEN other[y] ELSE d[y]]

\* d.get(i, default) for an int i
DictGet(d, i, default) == IF IntKey(i) \in DOMAIN d THEN d[IntKey(i)] ELSE default

\* category values: [t, v] with v the string
CatStr(c) == [t |-> "str", v |-> c]
CatNull == [t |-> "null", v |-> ""]
CatMissing == [t |-> "missing", v |-> ""]
CatList == [t |-> "list", v |-> ""]

\* keywords values: [t, v] with v the list's items, each an [t, v] scalar
KwList(items) == [t |-> "list", v |-> items]
KwMissing == [t |-> "missing", v |-> <<>>]
KwStr == [t |-> "str", v |-> <<>>]
Kw(n) == [t |-> "str", v |-> n]

\* ai_client.call: raises, or returns a text: optional prose, optional
\* ``` fence, a body, optional prose.  The body is not JSON ("invalid") or a
\* JSON value; an object's "results" is held in results.
TextResp(pre, fence, post, body) ==
    [kind |-> "text", pre |-> pre, fence |-> fence, post |-> post, body |-> body]
RaiseResp ==
    [kind |-> "raise", pre |-> FALSE, fence |-> FALSE, post |-> FALSE,
     body |-> [t |-> "invalid", results |-> [t |-> "missing", v |-> <<>>]]]
NoResp ==
    [kind |-> "none", pre |-> FALSE, fence |-> FALSE, post |-> FALSE,
     body |-> [t |-> "invalid", results |-> [t |-> "missing", v |-> <<>>]]]

Body(t, results) == [t |-> t, results |-> results]
ResultsList(items) == [t |-> "list", v |-> items]
ResultsMissing == [t |-> "missing", v |-> <<>>]
ResultsStr == [t |-> "str", v |-> <<>>]

\* text.strip(); strip a leading and a trailing fence; json.loads
parse_json_response(text) ==
    IF text.fence /\ ~text.pre                        \* text.startswith('```')
    THEN IF ~text.post /\ text.body.t # "invalid"
         THEN Returned(text.body) ELSE Raised
    ELSE IF ~text.fence /\ ~text.pre /\ ~text.post /\ text.body.t # "invalid"
         THEN Returned(text.body) ELSE Raised

\* ------------------------------------------------------------------------
\* Batches
\* ------------------------------------------------------------------------
\* number of batches of n articles: len(range(0, n, BATCH_SIZE))
NumBatches(n) == (n + BATCH_SIZE - 1) \div BATCH_SIZE

\* indices of batch b (b = 0, 1, ...) of n articles: indexed[b*BATCH_SIZE : (b+1)*BATCH_SIZE]
BatchLo(b) == b * BATCH_SIZE
BatchHi(b, n) == Min(n, (b + 1) * BATCH_SIZE) - 1
BatchIndices(b, n) == BatchLo(b)..BatchHi(b, n)

BatchGroupWide(i, n) ==
    [k \in 1..(Min(i + MAX_CONCURRENT_REQUESTS + 1, NumBatches(n)) - i) |-> i + k - 1]

\* batches[i : i + MAX_CONCURRENT_REQUESTS]
BatchGroup(i, n) ==
    [k \in 1..(Min(i + MAX_CONCURRENT_REQUESTS, NumBatches(n)) - i) |-> i + k - 1]

\* ------------------------------------------------------------------------
\* Scoring stage
\* ------------------------------------------------------------------------
DefaultScore ==
    [relevance |-> 5, quality |-> 5, timeliness |-> 5, category |-> "other", keywords |-> <<>>]

ScoreEntry(idx, r, q, tl, cat, kw) ==
    [t |-> "dict", index |-> idx, relevance |-> r, quality |-> q, timeliness |-> tl,
     category |-> cat, keywords |-> kw]
NonDictEntry ==
    [t |-> "str", index |-> JMissing, relevance |-> JMissing, quality |-> JMissing,
     timeliness |-> JMissing, category |-> CatMissing, keywords |-> KwMissing]

AnyCategory(c) ==
    LET cat == Get(c, CatStr("other"))
    IN IF cat.t = "list" THEN Raised ELSE Returned(cat.v)

\* cat = result.get('category', 'other'); if cat not in VALID_CATEGORIES: cat = 'other'
ValidCategory(c) ==
    LET cat == Get(c, CatStr("other"))
    IN IF cat.t = "list" THEN Raised                 \* unhashable
       ELSE IF cat.t = "str" /\ cat.v \in VALID_CATEGORIES THEN Returned(cat.v)
       ELSE Returned("other")

\* result.get('keywords', [])[:4] if isinstance(result.get('keywords'), list) else []
CapKeywords(kw) == IF kw.t = "list" THEN Slice(kw.v, 4) ELSE <<>>

\* the body of the loop `for result in parsed['results']`
ScoreOne(results, result) ==
    IF result.t # "dict" THEN Raised                 \* result.get: AttributeError
    ELSE IF result.index.t \in {"missing", "null"} THEN Returned(results)
    ELSE LET cat == ValidCategory(result.category)
             r == clamp(Get(result.relevance, JI(5)))
             q == clamp(Get(result.quality, JI(5)))
             tl == clamp(Get(result.timeliness, JI(5)))
             key == KeyOf(result.index)
         IN IF cat.raised \/ r.raised \/ q.raised \/ tl.raised \/ key.raised THEN Raised
            ELSE Returned(DictSet(results, key.value,
                     [relevance |-> r.value, quality |-> q.value, timeliness |-> tl.value,
                      category |-> cat.value, keywords |-> CapKeywords(result.keywords)]))

RECURSIVE ScoreLoop(_, _)
ScoreLoop(results, items) ==
    IF items = <<>> THEN Returned(results)
    ELSE LET step == ScoreOne(results, Head(items))
         IN IF step.raised THEN Raised ELSE ScoreLoop(step.value, Tail(items))

\* the try block of score_batch
ScoreTry(resp) ==
    IF resp.kind = "raise" THEN Raised               \* await ai_client.call(prompt)
    ELSE LET parsed == parse_json_response(resp)
         IN IF parsed.raised THEN Raised
            ELSE IF parsed.value.t \in {"number", "null"} THEN Raised   \* 'results' in parsed
            ELSE IF parsed.value.t = "object" /\ parsed.value.results.t = "list"
                 THEN ScoreLoop(EmptyDict, parsed.value.results.v)
            ELSE Returned(EmptyDict)

DefaultScores(b, n) == [k \in {IntKey(i) : i \in BatchIndices(b, n)} |-> DefaultScore]

score_batch_drop(b, n, resp) ==
    LET body == ScoreTry(resp)
    IN IF body.raised THEN Returned(EmptyDict) ELSE body

score_batch_spill(b, n, resp) ==
    LET body == ScoreTry(resp)
    IN IF body.raised THEN Returned([k \in {IntKey(i) : i \in 0..(n - 1)} |-> DefaultScore])
       ELSE body

score_batch(b, n, resp) ==
    LET body == ScoreTry(resp)
    IN IF body.raised THEN Returned(DefaultScores(b, n))   \* except Exception
       ELSE body

\* answers the scoring stage is run against, for batch b of n articles
CatSeq == <<"ai-ml", "security", "engineering", "tools", "opinion", "other">>

GoodEntry(i) ==
    ScoreEntry(JI(i), JI(((3 * i) % 5) + 4), JI(6), JI(5 + (i % 3)),
               CatStr(CatSeq[(i % 6) + 1]), KwList(<<Kw(1), Kw(2)>>))

OutOfRangeEntry(i) ==
    ScoreEntry(JI(i), IF i % 2 = 0 THEN JI(0) ELSE JI(11), JFloat(79),
               IF i % 2 = 0 THEN JNumStr(12) ELSE JI(-3),
               CatStr("sports"), KwList(<<Kw(1), Kw(2), Kw(3), Kw(4), Kw(5)>>))

\* an answer for every article, every third one out of range
MixedEntry(i) == IF i % 3 = 0 THEN OutOfRangeEntry(i) ELSE GoodEntry(i)

FullList(b, n, E(_)) == [k \in 1..(BatchHi(b, n) - BatchLo(b) + 1) |-> E(BatchLo(b) + k - 1)]

JsonResp(items) == TextResp(FALSE, FALSE, FALSE, Body("object", ResultsList(items)))

\* an answer that leaves articles out, leaves fields out, has an entry without
\* index, and reports indices of other batches (with a keyword that is a
\* number), beyond the list, and as a string and a float
SparseScores(b, n) ==
    LET lo == BatchLo(b)
        hi == BatchHi(b, n)
    IN <<ScoreEntry(JI(lo), JMissing, JMissing, JI(9), CatMissing, KwMissing),
         ScoreEntry(JNull, JI(9), JI(9), JI(9), CatStr("tools"), KwStr),
         ScoreEntry(JI((hi + 1) % n), JI(10), JI(10), JI(10), CatStr("security"),
                    KwList(<<JI(1)>>)),
         ScoreEntry(JI(n), JI(1), JI(1), JI(1), CatStr("tools"), KwMissing),
         ScoreEntry(JNumStr(lo), JI(3), JI(3), JI(3), CatStr("tools"), KwMissing),
         ScoreEntry(JFloat(10 * hi), JI(2), JI(2), JMissing, CatNull, KwStr)>>

ScoreResponses(b, n) ==
    LET lo == BatchLo(b)
        hi == BatchHi(b, n)
        mixed == FullList(b, n, MixedEntry)
    IN { RaiseResp,
         TextResp(FALSE, FALSE, FALSE, Body("invalid", ResultsMissing)),
         TextResp(TRUE, TRUE, FALSE, Body("object", ResultsList(mixed))),
         TextResp(FALSE, FALSE, FALSE, Body("number", ResultsMissing)),
         JsonResp(<<GoodEntry(lo),
                    ScoreEntry(JI(hi), JI(7), JStr, JI(7), CatStr("tools"), KwMissing)>>),
         JsonResp(<<ScoreEntry(JI(lo), JNull, JI(7), JI(7), CatStr("tools"), KwMissing)>>),
         JsonResp(<<ScoreEntry(JI(lo), JI(7), JI(7), JI(7), CatList, KwMissing)>>),
         JsonResp(<<GoodEntry(lo), NonDictEntry>>),
         TextResp(FALSE, TRUE, FALSE, Body("object", ResultsList(mixed))),
         JsonResp(SparseScores(b, n)),
         TextResp(FALSE, FALSE, FALSE, Body("object", ResultsMissing)) }

\* the score an answer gives an article when it goes by the article alone:
\* the same article gets the same score at whatever index it is sent
FixedScore(article) ==
    [relevance |-> Min(10, 4 + article.title), quality |-> 6, timeliness |-> 5,
     category |-> "tools", keywords |-> <<>>]

FixedEntry(i) ==
    ScoreEntry(JI(i), JI(FixedScore(recent_articles[i + 1]).relevance), JI(6), JI(5),
               CatStr("tools"), KwMissing)

FixedAnswer(b, n) == JsonResp(FullList(b, n, FixedEntry))

\* every answer a scoring call is run against
ScoreAnswers(b, n) == ScoreResponses(b, n) \cup {FixedAnswer(b, n)}

\* ------------------------------------------------------------------------
\* The wave loop shared by score_articles_with_ai and summarize_articles:
\*   for i in range(0, len(batches), MAX_CONCURRENT_REQUESTS):
\*       tasks = [...]; batch_results = await asyncio.gather(*tasks); merge
\* ------------------------------------------------------------------------
\* the AI call of batch b in the stage main_async is in
CallId(b) == [stage |-> (IF pc = "score_wait" THEN "score" ELSE "summarize"), batch |-> b]

NewTask(b) == [batch |-> b, st |-> "new", resp |-> NoResp, out |-> Returned(EmptyDict)]

InFlight == {k \in DOMAIN tasks : tasks[k].st = "inflight"}

RECURSIVE MergeResultsKeep(_, _)
MergeResultsKeep(d, ts) ==
    IF ts = <<>> THEN d ELSE MergeResultsKeep(DictUpdate(Head(ts).out.value, d), Tail(ts))

RECURSIVE MergeResults(_, _)
MergeResults(d, ts) ==
    IF ts = <<>> THEN d ELSE MergeResults(DictUpdate(d, Head(ts).out.value), Tail(ts))

\* ---- scoring -----------------------------------------------------------
ScoreWaveBegin ==
    /\ pc = "score"
    /\ wave_i < NumBatches(Len(recent_articles))
    /\ tasks' = [k \in DOMAIN BatchGroup(wave_i, Len(recent_articles)) |->
                    NewTask(BatchGroup(wave_i, Len(recent_articles))[k])]
    /\ pc' = "score_wait"
    /\ UNCHANGED <<clock, args_hours, args_top_n, openai_api_key, recent_articles, wave_i, all_scores,
                   scored_articles, top_articles_data, summaries, final_articles,
                   highlights, report>>
    /\ UNCHANGED fetchVars
    /\ UNCHANGED callVars

\* a task runs up to `await ai_client.call(prompt)`; tasks start in list order
IssueCall(k) ==
    /\ pc \in {"score_wait", "summarize_wait"}
    /\ k \in DOMAIN tasks
    /\ tasks[k].st = "new"
    /\ \A j \in 1..(k - 1) : tasks[j].st # "new"
    /\ tasks' = [tasks EXCEPT ![k].st = "inflight"]
    /\ UNCHANGED <<pc, clock, args_hours, args_top_n, openai_api_key, recent_articles, wave_i, all_scores,
                   scored_articles, top_articles_data, summaries, final_articles,
                   highlights, report>>
    /\ UNCHANGED fetchVars
    /\ issued' = issued \cup {CallId(tasks[k].batch)}
    /\ n_calls' = n_calls + 1
    /\ UNCHANGED settled

\* the call of task k settles and score_batch runs to its return
ScoreSettle(k) ==
    /\ pc = "score_wait"
    /\ k \in DOMAIN tasks
    /\ tasks[k].st = "inflight"
    /\ \A j \in DOMAIN tasks : tasks[j].st # "new"
    /\ \E resp \in ScoreAnswers(tasks[k].batch, Len(recent_articles)) :
         tasks' = [tasks EXCEPT ![k] =
                     [batch |-> tasks[k].batch, st |-> "done", resp |-> resp,
                      out |-> score_batch(tasks[k].batch, Len(recent_articles), resp)]]
    /\ UNCHANGED <<pc, clock, args_hours, args_top_n, openai_api_key, recent_articles, wave_i, all_scores,
                   scored_articles, top_articles_data, summaries, final_articles,
                   highlights, report>>
    /\ UNCHANGED fetchVars
    /\ settled' = settled \cup {CallId(tasks[k].batch)}
    /\ UNCHANGED <<issued, n_calls>>

ScoreWaveEndFirst ==
    /\ pc = "score_wait"
    /\ \E k \in DOMAIN tasks : tasks[k].st = "done"
    /\ all_scores' = MergeResults(all_scores, tasks)
    /\ wave_i' = wave_i + MAX_CONCURRENT_REQUESTS
    /\ pc' = "score"
    /\ UNCHANGED <<clock, args_hours, args_top_n, openai_api_key, recent_articles, tasks,
                   scored_articles, top_articles_data, summaries, final_articles,
                   highlights, report>>
    /\ UNCHANGED fetchVars
    /\ UNCHANGED callVars

\* gather returns; for results in batch_results: all_scores.update(results)
ScoreWaveEnd ==
    /\ pc = "score_wait"
    /\ \A k \in DOMAIN tasks : tasks[k].st = "done"
    /\ IF \E k \in DOMAIN tasks : tasks[k].out.raised
       THEN /\ pc' = "crashed"
            /\ UNCHANGED <<all_scores, wave_i>>
       ELSE /\ all_scores' = MergeResults(all_scores, tasks)
            /\ wave_i' = wave_i + MAX_CONCURRENT_REQUESTS
            /\ pc' = "score"
    /\ UNCHANGED <<clock, args_hours, args_top_n, openai_api_key, recent_articles, tasks,
                   scored_articles, top_articles_data, summaries, final_articles,
                   highlights, report>>
    /\ UNCHANGED fetchVars
    /\ UNCHANGED callVars

\* ------------------------------------------------------------------------
\* Ranking (main_async, after step 3)
\* ------------------------------------------------------------------------
TotalOfTwo(score_data) == score_data.relevance + score_data.quality

TotalOf(score_data) == score_data.relevance + score_data.quality + score_data.timeliness

ScoredOfNoDefault(scores, article, i) ==
    LET score_data == DictGet(scores, i, [DefaultScore EXCEPT !.relevance = 1])
    IN [article |-> article, total_score |-> TotalOf(score_data), score_data |-> score_data]

ScoredOf(scores, article, i) ==
    LET score_data == DictGet(scores, i, DefaultScore)
    IN [article |-> article, total_score |-> TotalOf(score_data), score_data |-> score_data]

RECURSIVE InsertDescUnstable(_, _)
InsertDescUnstable(sorted, x) ==
    IF sorted = <<>> THEN <<x>>
    ELSE IF Head(sorted).total_score > x.total_score
         THEN <<Head(sorted)>> \o InsertDescUnstable(Tail(sorted), x)
         ELSE <<x>> \o sorted

\* list.sort(key=total_score, reverse=True): descending, equal keys keep
\* their order.  x goes behind every element whose key is >= its own.
RECURSIVE InsertDesc(_, _)
InsertDesc(sorted, x) ==
    IF sorted = <<>> THEN <<x>>
    ELSE IF Head(sorted).total_score >= x.total_score
         THEN <<Head(sorted)>> \o InsertDesc(Tail(sorted), x)
         ELSE <<x>> \o sorted

RECURSIVE SortDescFrom(_, _)
SortDescFrom(sorted, rest) ==
    IF rest = <<>> THEN sorted
    ELSE SortDescFrom(InsertDesc(sorted, Head(rest)), Tail(rest))

SortDesc(s) == SortDescFrom(<<>>, s)

Rank ==
    /\ pc = "score"
    /\ wave_i >= NumBatches(Len(recent_articles))
    /\ scored_articles' =
         SortDesc([p \in 1..Len(recent_articles) |->
                      ScoredOf(all_scores, recent_articles[p], p - 1)])
    /\ top_articles_data' = Slice(scored_articles', args_top_n)
    /\ wave_i' = 0
    /\ pc' = "summarize"
    /\ UNCHANGED <<clock, args_hours, args_top_n, openai_api_key, recent_articles, tasks, all_scores,
                   summaries, final_articles, highlights, report>>
    /\ UNCHANGED fetchVars
    /\ UNCHANGED callVars

\* ------------------------------------------------------------------------
\* Summarization stage.  A text is [t, v]: "title" / "desc200" are the title
\* and description[:200] of the article whose title is v, "ai" a string the
\* AI wrote, "empty" the empty string; "null", "int", "missing" as in JSON.
\* ------------------------------------------------------------------------
TitleText(a) == [t |-> "title", v |-> a.title]
Desc200(a) == [t |-> "desc200", v |-> a.description]
AiText(n) == [t |-> "ai", v |-> n]

SumEntry(idx, titleZh, summary, reason) ==
    [t |-> "dict", index |-> idx, titleZh |-> titleZh, summary |-> summary, reason |-> reason]
NonDictSumEntry ==
    [t |-> "str", index |-> JMissing, titleZh |-> JMissing, summary |-> JMissing,
     reason |-> JMissing]

SummarizeOne(results, result) ==
    IF result.t # "dict" THEN Raised
    ELSE IF result.index.t \in {"missing", "null"} THEN Returned(results)
    ELSE LET key == KeyOf(result.index)
         IN IF key.raised THEN Raised
            ELSE Returned(DictSet(results, key.value,
                     [titleZh |-> Get(result.titleZh, EmptyText),
                      summary |-> Get(result.summary, EmptyText),
                      reason |-> Get(result.reason, EmptyText)]))

RECURSIVE SummarizeLoop(_, _)
SummarizeLoop(results, items) ==
    IF items = <<>> THEN Returned(results)
    ELSE LET step == SummarizeOne(results, Head(items))
         IN IF step.raised THEN Raised ELSE SummarizeLoop(step.value, Tail(items))

SummarizeTry(resp) ==
    IF resp.kind = "raise" THEN Raised
    ELSE LET parsed == parse_json_response(resp)
         IN IF parsed.raised THEN Raised
            ELSE IF parsed.value.t \in {"number", "null"} THEN Raised
            ELSE IF parsed.value.t = "object" /\ parsed.value.results.t = "list"
                 THEN SummarizeLoop(EmptyDict, parsed.value.results.v)
            ELSE Returned(EmptyDict)

\* the articles summarize_articles is called with
TopArticles == [p \in 1..Len(top_articles_data) |-> top_articles_data[p].article]

FallbackSummaries(b, articles) ==
    [k \in {IntKey(i) : i \in BatchIndices(b, Len(articles))} |->
        [titleZh |-> TitleText(articles[k.v + 1]),
         summary |-> TitleText(articles[k.v + 1]),
         reason |-> EmptyText]]

summarize_batch(b, articles, resp) ==
    LET body == SummarizeTry(resp)
    IN IF body.raised THEN Returned(FallbackSummaries(b, articles))
       ELSE body

GoodSummary(i) == SumEntry(JI(i), AiText(3 * i + 1), AiText(3 * i + 2), AiText(3 * i + 3))

SumResponses(b, n) ==
    LET lo == BatchLo(b)
        hi == BatchHi(b, n)
    IN { RaiseResp,
         TextResp(FALSE, TRUE, TRUE, Body("object", ResultsList(FullList(b, n, GoodSummary)))),
         JsonResp(<<GoodSummary(lo), NonDictSumEntry>>),
         TextResp(FALSE, TRUE, FALSE, Body("object", ResultsList(FullList(b, n, GoodSummary)))),
         JsonResp(<<SumEntry(JI(hi), JMissing, AiText(2), JMissing),
                    SumEntry(JNull, AiText(1), AiText(2), AiText(3)),
                    SumEntry(JI((hi + 1) % n), AiText(4), AiText(5), AiText(6))>>),
         JsonResp(<<SumEntry(JI(lo), AiText(1), JNull, AiText(3))>>) }

SummarizeWaveBegin ==
    /\ pc = "summarize"
    /\ wave_i < NumBatches(Len(top_articles_data))
    /\ tasks' = [k \in DOMAIN BatchGroup(wave_i, Len(top_articles_data)) |->
                    NewTask(BatchGroup(wave_i, Len(top_articles_data))[k])]
    /\ pc' = "summarize_wait"
    /\ UNCHANGED <<clock, args_hours, args_top_n, openai_api_key, recent_articles, wave_i, all_scores,
                   scored_articles, top_articles_data, summaries, final_articles,
                   highlights, report>>
    /\ UNCHANGED fetchVars
    /\ UNCHANGED callVars

SummarizeSettle(k) ==
    /\ pc = "summarize_wait"
    /\ k \in DOMAIN tasks
    /\ tasks[k].st = "inflight"
    /\ \A j \in DOMAIN tasks : tasks[j].st # "new"
    /\ \E resp \in SumResponses(tasks[k].batch, Len(top_articles_data)) :
         tasks' = [tasks EXCEPT ![k] =
                     [batch |-> tasks[k].batch, st |-> "done", resp |-> resp,
                      out |-> summarize_batch(tasks[k].batch, TopArticles, resp)]]
    /\ UNCHANGED <<pc, clock, args_hours, args_top_n, openai_api_key, recent_articles, wave_i, all_scores,
                   scored_articles, top_articles_data, summaries, final_articles,
                   highlights, report>>
    /\ UNCHANGED fetchVars
    /\ settled' = settled \cup {CallId(tasks[k].batch)}
    /\ UNCHANGED <<issued, n_calls>>

SummarizeWaveEnd ==
    /\ pc = "summarize_wait"
    /\ \A k \in DOMAIN tasks : tasks[k].st = "done"
    /\ IF \E k \in DOMAIN tasks : tasks[k].out.raised
       THEN /\ pc' = "crashed"
            /\ UNCHANGED <<summaries, wave_i>>
       ELSE /\ summaries' = MergeResults(summaries, tasks)
            /\ wave_i' = wave_i + MAX_CONCURRENT_REQUESTS
            /\ pc' = "summarize"
    /\ UNCHANGED <<clock, args_hours, args_top_n, openai_api_key, recent_articles, tasks, all_scores,
                   scored_articles, top_articles_data, final_articles, highlights, report>>
    /\ UNCHANGED fetchVars
    /\ UNCHANGED callVars

FinalOfShifted(item, sums, i) ==
    LET article == item.article
        score_data == item.score_data
        sm == DictGet(sums, i + 1, [titleZh |-> TitleText(article),
                                    summary |-> Desc200(article),
                                    reason |-> EmptyText])
    IN [title |-> article.title, link |-> article.link, pub_date |-> article.pub_date,
        description |-> article.description, source_name |-> article.source_name,
        score |-> item.total_score,
        score_breakdown |-> [relevance |-> score_data.relevance,
                             quality |-> score_data.quality,
                             timeliness |-> score_data.timeliness],
        category |-> score_data.category, keywords |-> score_data.keywords,
        title_zh |-> sm.titleZh, summary |-> sm.summary, reason |-> sm.reason]

\* main_async, after step 4: the ScoredArticle of every selected article
FinalOf(item, sums, i) ==
    LET article == item.article
        score_data == item.score_data
        sm == DictGet(sums, i, [titleZh |-> TitleText(article),
                                summary |-> Desc200(article),
                                reason |-> EmptyText])
    IN [title |-> article.title, link |-> article.link, pub_date |-> article.pub_date,
        description |-> article.description, source_name |-> article.source_name,
        score |-> item.total_score,
        score_breakdown |-> [relevance |-> score_data.relevance,
                             quality |-> score_data.quality,
                             timeliness |-> score_data.timeliness],
        category |-> score_data.category, keywords |-> score_data.keywords,
        title_zh |-> sm.titleZh, summary |-> sm.summary, reason |-> sm.reason]

Finalize ==
    /\ pc = "summarize"
    /\ wave_i >= NumBatches(Len(top_articles_data))
    /\ final_articles' = [p \in 1..Len(top_articles_data) |->
                             FinalOf(top_articles_data[p], summaries, p - 1)]
    /\ tasks' = <<>>
    /\ pc' = "highlights"
    /\ UNCHANGED <<clock, args_hours, args_top_n, openai_api_key, recent_articles, wave_i, all_scores,
                   scored_articles, top_articles_data, summaries, highlights, report>>
    /\ UNCHANGED fetchVars
    /\ UNCHANGED callVars

\* ------------------------------------------------------------------------
\* Highlights stage
\* ------------------------------------------------------------------------
\* x[:100] needs a string (or another sliceable value)
Sliceable(x) == x.t \notin {"null", "int"}

\* generate_highlights up to `await ai_client.call(prompt)`: the article list
\* is built outside the try block
HighlightsBegin ==
    /\ pc = "highlights"
    /\ IF \A p \in 1..Min(10, Len(final_articles)) : Sliceable(final_articles[p].summary)
       THEN /\ pc' = "highlights_wait"
            /\ issued' = issued \cup {[stage |-> "highlights", batch |-> 0]}
            /\ n_calls' = n_calls + 1
       ELSE /\ pc' = "crashed"
            /\ UNCHANGED <<issued, n_calls>>
    /\ UNCHANGED <<clock, args_hours, args_top_n, openai_api_key, recent_articles, wave_i, tasks, all_scores,
                   scored_articles, top_articles_data, summaries, final_articles,
                   highlights, report, settled>>
    /\ UNCHANGED fetchVars

\* the call settles: text.strip(), or '' when it raised
HighlightsSettle ==
    /\ pc = "highlights_wait"
    /\ \E r \in {"raise", "blank", "text"} :
         highlights' = IF r = "text" THEN AiText(7) ELSE EmptyText
    /\ pc' = "report"
    /\ UNCHANGED <<clock, args_hours, args_top_n, openai_api_key, recent_articles, wave_i, tasks, all_scores,
                   scored_articles, top_articles_data, summaries, final_articles, report>>
    /\ UNCHANGED fetchVars
    /\ settled' = settled \cup {[stage |-> "highlights", batch |-> 0]}
    /\ UNCHANGED <<issued, n_calls>>

\* ------------------------------------------------------------------------
\* generate_digest_report
\* ------------------------------------------------------------------------
\* truth value of a text
Truthy(x) == x.t \notin {"empty", "null", "missing"} /\ ~(x.t = "int" /\ x.v = 0)

\* categories in order of first appearance (insertion order of cat_groups)
RECURSIVE CatOrder(_, _)
CatOrder(articles, seen) ==
    IF articles = <<>> THEN seen
    ELSE CatOrder(Tail(articles),
                  IF \E k \in DOMAIN seen : seen[k] = Head(articles).category
                  THEN seen ELSE Append(seen, Head(articles).category))

CatGroup(articles, c) == SelectSeq(articles, LAMBDA a : a.category = c)

InsertGroupLast(sorted, g) == Append(sorted, g)

\* sorted(cat_groups.items(), key=lambda x: len(x[1]), reverse=True)
RECURSIVE InsertGroup(_, _)
InsertGroup(sorted, g) ==
    IF sorted = <<>> THEN <<g>>
    ELSE IF Len(Head(sorted).articles) >= Len(g.articles)
         THEN <<Head(sorted)>> \o InsertGroup(Tail(sorted), g)
         ELSE <<g>> \o sorted

RECURSIVE SortGroups(_, _)
SortGroups(sorted, rest) ==
    IF rest = <<>> THEN sorted
    ELSE SortGroups(InsertGroup(sorted, Head(rest)), Tail(rest))

SortedCats(articles) ==
    LET cats == CatOrder(articles, <<>>)
    IN SortGroups(<<>>, [k \in DOMAIN cats |->
                            [cat |-> cats[k], articles |-> CatGroup(articles, cats[k])]])

\* the numbered entries of the category sections, global_index running on
RECURSIVE Sections(_, _)
Sections(groups, global_index) ==
    IF groups = <<>> THEN <<>>
    ELSE <<[cat |-> Head(groups).cat,
            entries |-> [k \in 1..Len(Head(groups).articles) |->
                           [num |-> global_index + k,
                            article |-> Head(groups).articles[k],
                            score_total |->
                                Head(groups).articles[k].score_breakdown.relevance
                                + Head(groups).articles[k].score_breakdown.quality
                                + Head(groups).articles[k].score_breakdown.timeliness]]]>>
         \o Sections(Tail(groups), global_index + Len(Head(groups).articles))

\* ', '.join(a.keywords) needs strings
Joinable(kw) == \A k \in DOMAIN kw : kw[k].t = "str"

\* medals = ['🥇', '🥈', '🥉']
medals == <<"gold", "silver", "bronze">>

\* the entries of the top-3 showcase: for i in range(min(3, len(articles)))
Showcase(articles) ==
    [i \in 1..Min(3, Len(articles)) |-> [medal |-> medals[i], article |-> articles[i]]]

generate_digest_report_any(articles, hl) ==
    IF \E p \in DOMAIN articles : ~Joinable(articles[p].keywords) THEN Raised
    ELSE Returned([top_n |-> Len(articles),
                   highlights_shown |-> Truthy(hl),
                   showcase |-> Showcase(articles),
                   sections |-> Sections(SortedCats(articles), 0)])

generate_digest_report(articles, hl) ==
    IF \E p \in DOMAIN articles : ~Joinable(articles[p].keywords) THEN Raised
    ELSE Returned([top_n |-> Len(articles),
                   highlights_shown |-> Truthy(hl),
                   showcase |-> IF Len(articles) >= 3 THEN Showcase(articles) ELSE <<>>,
                   sections |-> Sections(SortedCats(articles), 0)])

\* generate the report and write it
Report ==
    /\ pc = "report"
    /\ LET r == generate_digest_report(final_articles, highlights)
       IN IF r.raised
          THEN pc' = "crashed" /\ UNCHANGED report
          ELSE pc' = "done" /\ report' = r.value
    /\ UNCHANGED <<clock, args_hours, args_top_n, openai_api_key, recent_articles, wave_i, tasks, all_scores,
                   scored_articles, top_articles_data, summaries, final_articles, highlights>>
    /\ UNCHANGED fetchVars
    /\ UNCHANGED callVars

\* ------------------------------------------------------------------------
\* The run from the scoring stage on
\* ------------------------------------------------------------------------
TopNChoices == {-1, 0, 3, MaxArticles + 1}

\* article counts: a few, a full batch, one more than a batch, the largest
ArticleCounts == {1, 2, 3, BATCH_SIZE, BATCH_SIZE + 1, MaxArticles}

InitAI ==
    /\ pc = "score"
    /\ clock = DefaultHours
    /\ args_hours = DefaultHours
    /\ args_top_n \in TopNChoices
    /\ openai_api_key = "key"
    /\ fut = [f \in Feeds |-> "done"]
    /\ \E n \in ArticleCounts :
         net = [f \in Feeds |->
                  IF f = 1 THEN [kind |-> "ok", doc |-> [j \in 1..n |-> Entry(j)]]
                  ELSE [kind |-> "timeout", doc |-> <<>>]]
    /\ fut_result = [f \in Feeds |-> fetch_feed(net[f], f, clock)]
    /\ collected = Feeds
    /\ all_articles = fut_result[1].value
    /\ success_count = 1
    /\ fail_count = NumFeeds - 1
    /\ recent_articles = SelectSeq(all_articles, InWindow)
    /\ AIIdle

NextAI ==
    \/ ScoreWaveBegin
    \/ \E k \in DOMAIN tasks : IssueCall(k)
    \/ \E k \in DOMAIN tasks :
          ScoreSettle(k)
          /\ tasks'[k].resp \in ScoreResponses(tasks[k].batch, Len(recent_articles))
    \/ ScoreWaveEnd
    \/ Rank
    \/ SummarizeWaveBegin
    \/ \E k \in DOMAIN tasks : SummarizeSettle(k)
    \/ SummarizeWaveEnd
    \/ Finalize
    \/ HighlightsBegin
    \/ HighlightsSettle
    \/ Report

SpecAI == InitAI /\ [][NextAI]_vars

\* ------------------------------------------------------------------------
\* The whole run: main_async from its first line to its exit
\* ------------------------------------------------------------------------
\* the API key check at the top of main_async
Start ==
    /\ pc = "start"
    /\ pc' = IF openai_api_key = "" THEN "exit1" ELSE "fetch"
    /\ UNCHANGED <<clock, args_hours, args_top_n, openai_api_key, recent_articles>>
    /\ UNCHANGED fetchVars
    /\ UNCHANGED aiVars

\* what the network answers in a whole run: the first feed fails, is empty,
\* or holds one stale entry, one fresh entry or many; the others fail or hold
\* one stale entry
RunOutcomes(f) ==
    IF f = 1
    THEN {[kind |-> "timeout", doc |-> <<>>]}
         \cup {[kind |-> "ok", doc |-> d] : d \in {<<>>, <<Entry(1)>>, StaleDoc, LargeDoc}}
    ELSE {[kind |-> "http", doc |-> <<>>], [kind |-> "ok", doc |-> StaleDoc]}

\* what the AI answers in a whole run: the call raises, or the text is a
\* fenced JSON object with an entry for every article of the batch
RunAnswer(resp) == resp.kind = "raise" \/ (resp.fence /\ ~resp.pre /\ ~resp.post)

RunTopN == {DefaultTopN, MaxArticles}

InitRun ==
    /\ pc = "start"
    /\ clock = DefaultHours
    /\ args_hours = DefaultHours
    /\ args_top_n \in RunTopN
    /\ openai_api_key \in {"", "key"}
    /\ fut = [f \in Feeds |-> "pending"]
    /\ net = [f \in Feeds |-> None]
    /\ fut_result = [f \in Feeds |-> None]
    /\ collected = {}
    /\ all_articles = <<>>
    /\ success_count = 0
    /\ fail_count = 0
    /\ recent_articles = <<>>
    /\ AIIdle

NextRun ==
    \/ Start
    \/ \E f \in Feeds : WorkerStart(f)
    \/ \E f \in Feeds : WorkerFinish(f) /\ net'[f] \in RunOutcomes(f)
    \/ \E f \in Feeds : Collect(f)
    \/ FetchReturn
    \/ FilterStep
    \/ ScoreWaveBegin
    \/ \E k \in DOMAIN tasks : IssueCall(k)
    \/ \E k \in DOMAIN tasks : ScoreSettle(k) /\ RunAnswer(tasks'[k].resp)
    \/ ScoreWaveEnd
    \/ Rank
    \/ SummarizeWaveBegin
    \/ \E k \in DOMAIN tasks : SummarizeSettle(k) /\ RunAnswer(tasks'[k].resp)
    \/ SummarizeWaveEnd
    \/ Finalize
    \/ HighlightsBegin
    \/ HighlightsSettle
    \/ Report

SpecRun == InitRun /\ [][NextRun]_vars

\* ------------------------------------------------------------------------
\* Properties of the scoring stage, the ranking and the wave loop
\* ------------------------------------------------------------------------
Ranked == pc \in {"summarize", "summarize_wait", "highlights", "highlights_wait",
                  "report", "done"}

\* the answers on which the try block of score_batch raises, told from the
\* answer alone
DimUnusable(x) == Get(x, JI(5)).t \notin {"int", "bool", "numstr", "float"}

EntryRaises(e) ==
    \/ e.t # "dict"
    \/ /\ e.index.t \notin {"missing", "null"}
       /\ \/ DimUnusable(e.relevance)
          \/ DimUnusable(e.quality)
          \/ DimUnusable(e.timeliness)
          \/ e.category.t = "list"
          \/ e.index.t = "list"

ScoreRespFails(resp) ==
    \/ resp.kind = "raise"
    \/ /\ resp.kind = "text"
       /\ \/ resp.pre \/ resp.post \/ resp.body.t \in {"invalid", "number", "null"}
          \/ /\ resp.body.t = "object"
             /\ resp.body.results.t = "list"
             /\ \E j \in DOMAIN resp.body.results.v : EntryRaises(resp.body.results.v[j])

BatchKeys(b, n) == {IntKey(i) : i \in BatchIndices(b, n)}

\* C1: when the AI call or the parsing of its answer raises for a batch,
\* score_batch returns the default Score Record for exactly the indices of
\* that batch, none is missing from the merged mapping, and no task raises.
C1_FailedBatchGetsDefaults ==
    pc \in {"score_wait", "score"} =>
        \A k \in DOMAIN tasks :
            /\ ~tasks[k].out.raised
            /\ (tasks[k].st = "done" /\ ScoreRespFails(tasks[k].resp)) =>
                 /\ DOMAIN tasks[k].out.value = BatchKeys(tasks[k].batch, Len(recent_articles))
                 /\ \A key \in DOMAIN tasks[k].out.value :
                        tasks[k].out.value[key] = DefaultScore
                 /\ pc = "score" =>
                        BatchKeys(tasks[k].batch, Len(recent_articles)) \subseteq DOMAIN all_scores

C1_Witness ==
    /\ pc = "score"
    /\ \E k, j \in DOMAIN tasks :
         /\ tasks[k].resp.kind = "raise"
         /\ tasks[j].resp.kind = "text"
         /\ ScoreRespFails(tasks[j].resp)
         /\ Cardinality(DOMAIN tasks[j].out.value) = BATCH_SIZE

DimsInRange(sd) ==
    /\ sd.relevance \in 1..10
    /\ sd.quality \in 1..10
    /\ sd.timeliness \in 1..10

\* C2: every dimension of every article that reaches ranking, and of every
\* ScoredArticle, is an integer in 1..10 whatever the AI answered.
C2_DimensionsInRange ==
    /\ \A key \in DOMAIN all_scores : DimsInRange(all_scores[key])
    /\ \A p \in DOMAIN scored_articles : DimsInRange(scored_articles[p].score_data)
    /\ \A p \in DOMAIN final_articles : DimsInRange(final_articles[p].score_breakdown)

\* an answer with an out-of-range dimension was accepted and its article ranked
C2_Witness ==
    /\ pc = "summarize"
    /\ wave_i = 0
    /\ \E k \in DOMAIN tasks :
         /\ ~ScoreRespFails(tasks[k].resp)
         /\ \E j \in DOMAIN tasks[k].resp.body.results.v :
              LET e == tasks[k].resp.body.results.v[j]
              IN /\ e.relevance.t = "int" /\ e.relevance.v > 10
                 /\ e.timeliness.t = "int" /\ e.timeliness.v < 1
                 /\ e.index.t = "int"
                 /\ \E p \in DOMAIN scored_articles :
                      /\ scored_articles[p].article = recent_articles[e.index.v + 1]
                      /\ scored_articles[p].score_data.relevance = 10
                      /\ scored_articles[p].score_data.timeliness = 1

\* C3: the stored score of every ScoredArticle is the sum of its own three
\* dimensions (3..30), it is the total the ranking sorted by, and the
\* report prints that same total.
C3_TotalIsSum ==
    /\ \A p \in DOMAIN scored_articles :
         scored_articles[p].total_score =
             scored_articles[p].score_data.relevance
             + scored_articles[p].score_data.quality
             + scored_articles[p].score_data.timeliness
    /\ \A p \in DOMAIN final_articles :
         /\ final_articles[p].score =
                final_articles[p].score_breakdown.relevance
                + final_articles[p].score_breakdown.quality
                + final_articles[p].score_breakdown.timeliness
         /\ final_articles[p].score \in 3..30
         /\ final_articles[p].score = scored_articles[p].total_score
    /\ pc = "done" =>
         \A g \in DOMAIN report.sections :
            \A k \in DOMAIN report.sections[g].entries :
               report.sections[g].entries[k].score_total =
                   report.sections[g].entries[k].article.score

C3_Witness ==
    /\ pc = "done"
    /\ \E g \in DOMAIN report.sections :
         \E k \in DOMAIN report.sections[g].entries :
            /\ report.sections[g].entries[k].score_total > 15
            /\ report.sections[g].entries[k].article.score_breakdown.timeliness # 5

\* C4: the category of every ranked and every rendered article is one of
\* the six valid categories; another value, or none, gives "other".
C4_CategoryValid ==
    /\ \A key \in DOMAIN all_scores : all_scores[key].category \in VALID_CATEGORIES
    /\ \A p \in DOMAIN scored_articles :
         scored_articles[p].score_data.category \in VALID_CATEGORIES
    /\ \A p \in DOMAIN final_articles : final_articles[p].category \in VALID_CATEGORIES
    /\ \A k \in DOMAIN tasks :
         (pc \in {"score_wait", "score"} /\ tasks[k].st = "done"
            /\ ~ScoreRespFails(tasks[k].resp)) =>
            \A j \in DOMAIN tasks[k].resp.body.results.v :
               LET e == tasks[k].resp.body.results.v[j]
               IN (e.index.t = "int" /\ ~(e.category.t = "str" /\ e.category.v \in VALID_CATEGORIES)
                   /\ \A i \in (j + 1)..Len(tasks[k].resp.body.results.v) :
                         tasks[k].resp.body.results.v[i].index # e.index)
                  => tasks[k].out.value[IntKey(e.index.v)].category = "other"

C4_Witness ==
    /\ pc = "summarize"
    /\ wave_i = 0
    /\ \E k \in DOMAIN tasks :
         /\ ~ScoreRespFails(tasks[k].resp)
         /\ \E j \in DOMAIN tasks[k].resp.body.results.v :
              LET e == tasks[k].resp.body.results.v[j]
              IN /\ e.category = CatStr("sports")
                 /\ e.index.t = "int"
                 /\ \E p \in DOMAIN scored_articles :
                      /\ scored_articles[p].article = recent_articles[e.index.v + 1]
                      /\ scored_articles[p].score_data.category = "other"
                      /\ scored_articles[p].score_data.quality = 7

\* position of an article in the time-filtered list
Pos(a) == CHOOSE p \in DOMAIN recent_articles : recent_articles[p] = a

\* C5: after ranking a higher total comes first and equal totals keep the
\* order of the time-filtered list; no article is lost or added.
C5_StableDescending ==
    Ranked =>
        /\ Len(scored_articles) = Len(recent_articles)
        /\ \A p \in DOMAIN recent_articles :
              \E q \in DOMAIN scored_articles : scored_articles[q].article = recent_articles[p]
        /\ LET pos == [q \in DOMAIN scored_articles |-> Pos(scored_articles[q].article)]
           IN \A i, j \in DOMAIN scored_articles :
                 i < j =>
                   /\ scored_articles[i].total_score >= scored_articles[j].total_score
                   /\ scored_articles[i].total_score = scored_articles[j].total_score
                        => pos[i] < pos[j]

C5_Witness ==
    /\ Ranked
    /\ \E i, j \in DOMAIN scored_articles :
         /\ i < j
         /\ scored_articles[i].total_score = scored_articles[j].total_score
    /\ \E i, j \in DOMAIN scored_articles :
         /\ i < j
         /\ scored_articles[i].total_score > scored_articles[j].total_score
         /\ Pos(scored_articles[i].article) > Pos(scored_articles[j].article)

\* C6: for every --top-n the run accepts, the selection has
\* min(N, number of scored articles) entries and is a prefix of the ranking.
C6_TopNIsMinPrefix ==
    Ranked =>
        /\ Len(top_articles_data) = Min(args_top_n, Len(scored_articles))
        /\ top_articles_data = SubSeq(scored_articles, 1, Len(top_articles_data))

\* the wave (0-based) that batch b is sent in
WaveOf(b) == b \div MAX_CONCURRENT_REQUESTS

\* C10: in both stages at most MAX_CONCURRENT_REQUESTS calls are in flight,
\* and a call is sent only after every call of every earlier wave of its
\* stage has settled.
C10_BoundedWaves ==
    /\ Cardinality(issued \ settled) <= MAX_CONCURRENT_REQUESTS
    /\ \A c \in issued :
         c.stage \in {"score", "summarize"} =>
            \A b \in 0..(c.batch - 1) :
               WaveOf(b) < WaveOf(c.batch) =>
                  [stage |-> c.stage, batch |-> b] \in settled

C10_Witness ==
    /\ pc = "summarize_wait"
    /\ wave_i = MAX_CONCURRENT_REQUESTS
    /\ issued \ settled = {[stage |-> "summarize", batch |-> MAX_CONCURRENT_REQUESTS]}
    /\ \A b \in 0..MAX_CONCURRENT_REQUESTS : [stage |-> "score", batch |-> b] \in settled


\* ------------------------------------------------------------------------
\* Properties of the merge, of the summarization stage and of the whole run
\* ------------------------------------------------------------------------
\* the answers on which the try block of summarize_batch raises
SumEntryRaises(e) == e.t # "dict" \/ e.index.t = "list"

SumRespFails(resp) ==
    \/ resp.kind = "raise"
    \/ /\ resp.kind = "text"
       /\ \/ resp.pre \/ resp.post \/ resp.body.t \in {"invalid", "number", "null"}
          \/ /\ resp.body.t = "object"
             /\ resp.body.results.t = "list"
             /\ \E j \in DOMAIN resp.body.results.v : SumEntryRaises(resp.body.results.v[j])

\* number of articles the stage main_async is in works on
StageLen == IF pc = "score_wait" THEN Len(recent_articles) ELSE Len(top_articles_data)

\* C11: the mapping a batch returns holds only keys of its own index range,
\* in the scoring and in the summarization stage, so the mappings merged in
\* one wave have pairwise disjoint key sets.
C11_BatchKeysInOwnRange ==
    pc \in {"score_wait", "summarize_wait"} =>
        /\ \A k \in DOMAIN tasks :
              tasks[k].st = "done" =>
                 DOMAIN tasks[k].out.value \subseteq BatchKeys(tasks[k].batch, StageLen)
        /\ \A k, j \in DOMAIN tasks :
              (k # j /\ tasks[k].st = "done" /\ tasks[j].st = "done") =>
                 DOMAIN tasks[k].out.value \cap DOMAIN tasks[j].out.value = {}

\* what the merge of a wave gives when task k is left out
MergedWithout(d, k) == MergeResults(d, SelectSeq(tasks, LAMBDA t : t.batch # tasks[k].batch))

\* the record a failed batch stores for a key of its own
FallbackOf(key) ==
    [titleZh |-> TitleText(TopArticles[key.v + 1]),
     summary |-> TitleText(TopArticles[key.v + 1]),
     reason |-> EmptyText]

\* the effect of the failed task k on the merge of its wave: outside the
\* indices of its batch the new mapping is what the other tasks and the
\* earlier waves give; each index of its batch is present, with the default
\* or with a record that a task merged after it returned
Confined(old, new, k, n, default(_)) ==
    LET own == BatchKeys(tasks[k].batch, n)
        others == MergedWithout(old, k)
    IN /\ (DOMAIN new) \ own = (DOMAIN others) \ own
       /\ \A key \in (DOMAIN new) \ own : new[key] = others[key]
       /\ \A key \in own :
            /\ key \in DOMAIN new
            /\ \/ new[key] = default(key)
               \/ \E j \in (k + 1)..Len(tasks) :
                    /\ key \in DOMAIN tasks[j].out.value
                    /\ new[key] = tasks[j].out.value[key]

ScoreMergeConfined ==
    (pc = "score_wait" /\ pc' = "score") =>
        \A k \in DOMAIN tasks :
            ScoreRespFails(tasks[k].resp) =>
                Confined(all_scores, all_scores', k, Len(recent_articles),
                         LAMBDA key : DefaultScore)

SummaryMergeConfined ==
    (pc = "summarize_wait" /\ pc' = "summarize") =>
        \A k \in DOMAIN tasks :
            SumRespFails(tasks[k].resp) =>
                Confined(summaries, summaries', k, Len(top_articles_data), FallbackOf)

\* C12: when a batch fails, the merge of its wave changes the aggregate
\* mapping only at the indices of that batch, where it stores the default
\* record; the records of every other batch and of every earlier wave are
\* in the aggregate mapping as they were produced.
C12_FailureConfined == [][ScoreMergeConfined /\ SummaryMergeConfined]_vars

\* a wave was merged in which one batch failed and the other did not
C12_Witness ==
    /\ pc = "score"
    /\ \E k, j \in DOMAIN tasks :
         /\ ScoreRespFails(tasks[k].resp)
         /\ ~ScoreRespFails(tasks[j].resp)
         /\ \A key \in BatchKeys(tasks[k].batch, Len(recent_articles)) :
               key \in DOMAIN all_scores /\ all_scores[key] = DefaultScore
         /\ \E key \in BatchKeys(tasks[j].batch, Len(recent_articles)) :
               /\ key \in DOMAIN tasks[j].out.value
               /\ all_scores[key] = tasks[j].out.value[key]
               /\ all_scores[key] # DefaultScore

\* C13: the ranking holds every time-filtered article exactly once, with the
\* record the merged mapping has for its index and, when the mapping has
\* none, with the default record (5, 5, 5, "other", no keywords).
C13_EveryArticleRanked ==
    Ranked =>
        /\ Len(scored_articles) = Len(recent_articles)
        /\ \A p \in DOMAIN recent_articles :
              /\ Cardinality({q \in DOMAIN scored_articles :
                                 scored_articles[q].article = recent_articles[p]}) = 1
              /\ \A q \in DOMAIN scored_articles :
                    scored_articles[q].article = recent_articles[p] =>
                       scored_articles[q].score_data =
                           IF IntKey(p - 1) \in DOMAIN all_scores
                           THEN all_scores[IntKey(p - 1)]
                           ELSE DefaultScore

\* the AI answered without a results list, or left indices out, and the
\* articles it left out are ranked with the default record
C13_Witness ==
    /\ pc = "summarize"
    /\ wave_i = 0
    /\ Len(recent_articles) > BATCH_SIZE
    /\ \E k \in DOMAIN tasks :
         /\ ~ScoreRespFails(tasks[k].resp)
         /\ tasks[k].resp.body.results.t = "missing"
    /\ \E p \in DOMAIN recent_articles :
         /\ IntKey(p - 1) \notin DOMAIN all_scores
         /\ \E q \in DOMAIN scored_articles :
              /\ scored_articles[q].article = recent_articles[p]
              /\ scored_articles[q].score_data = DefaultScore
    /\ \E key \in DOMAIN all_scores : all_scores[key] # DefaultScore


\* the AI calls of a stage for n articles, one per batch
StageCalls(stage, n) == {[stage |-> stage, batch |-> b] : b \in 0..(NumBatches(n) - 1)}

HighlightsCall == [stage |-> "highlights", batch |-> 0]

\* main_async has built final_articles
Finalized == pc \in {"highlights", "highlights_wait", "report", "done"}

\* the summary fields of a final article
SummaryOf(a) == [titleZh |-> a.title_zh, summary |-> a.summary, reason |-> a.reason]

\* C15: the summarization batches cover the selected articles, each once,
\* by rank position 0..len-1; every final article is the selected article of
\* its position, and the Summary Record merged for index i is the one the
\* i-th final article carries.
C15_SummariesOnSelection ==
    LET m == Len(top_articles_data) IN
    /\ Ranked =>
         /\ m <= Len(scored_articles)
         /\ \A p \in 1..m : TopArticles[p] = scored_articles[p].article
         /\ UNION {BatchIndices(b, m) : b \in 0..(NumBatches(m) - 1)} = 0..(m - 1)
         /\ \A b, c \in 0..(NumBatches(m) - 1) :
               b # c => BatchIndices(b, m) \cap BatchIndices(c, m) = {}
         /\ \A c \in issued : c.stage = "summarize" => c.batch \in 0..(NumBatches(m) - 1)
    /\ pc = "summarize_wait" =>
         \A k \in DOMAIN tasks :
            (tasks[k].st = "done" /\ SumRespFails(tasks[k].resp)) =>
               \A key \in DOMAIN tasks[k].out.value :
                  tasks[k].out.value[key].summary = TitleText(TopArticles[key.v + 1])
    /\ Finalized =>
         /\ Len(final_articles) = m
         /\ StageCalls("summarize", m) \subseteq settled
         /\ \A p \in 1..m :
               /\ final_articles[p].title = TopArticles[p].title
               /\ final_articles[p].score = top_articles_data[p].total_score
               /\ IntKey(p - 1) \in DOMAIN summaries =>
                     SummaryOf(final_articles[p]) = summaries[IntKey(p - 1)]

\* fewer articles were selected than ranked, and the AI's records for
\* positions 0 and 1 are on the first and on the second final article
C15_Witness ==
    /\ Finalized
    /\ Len(final_articles) > 1
    /\ Len(final_articles) < Len(scored_articles)
    /\ final_articles[1].summary = AiText(2)
    /\ final_articles[2].summary = AiText(5)
    /\ final_articles[1].title # final_articles[2].title

\* C16: a final article for which the summarization stage gave no record of
\* the AI, because its batch failed or because the answer left its index
\* out, carries translated title = title, summary = title, rationale = "".
C16_DocumentedFallback ==
    /\ pc = "summarize_wait" =>
         \A k \in DOMAIN tasks :
            (tasks[k].st = "done" /\ SumRespFails(tasks[k].resp)) =>
               \A key \in BatchKeys(tasks[k].batch, Len(top_articles_data)) :
                  /\ key \in DOMAIN tasks[k].out.value
                  /\ tasks[k].out.value[key] = FallbackOf(key)
    /\ Finalized =>
         \A p \in DOMAIN final_articles :
            IntKey(p - 1) \notin DOMAIN summaries =>
               SummaryOf(final_articles[p]) = FallbackOf(IntKey(p - 1))

\* generate_highlights raised: the run ended between the last merge of the
\* summarization stage and the highlights call
HighlightsRaised ==
    /\ pc = "crashed"
    /\ HighlightsCall \notin issued
    /\ (issued # {} /\ issued = settled)

\* C17: generate_highlights never raises and sends one call; when the call
\* fails the highlights are the empty string; the run goes on to the report,
\* which shows the highlights section exactly when the string is not empty.
C17_HighlightsNeverRaise ==
    /\ ~HighlightsRaised
    /\ pc \in {"report", "done"} =>
         /\ HighlightsCall \in settled
         /\ highlights \in {EmptyText, AiText(7)}
    /\ pc = "done" => (report.highlights_shown <=> highlights # EmptyText)

\* C18: whatever the AI answers, the run does not end with an exception: it
\* reaches the report step and that step produces the report.
C18_RunProducesReport ==
    /\ pc # "crashed"
    /\ pc = "done" => report # None

Fetched == collected = Feeds /\ \A f \in Feeds : fut[f] = "done"

C14_Order ==
    /\ issued # {} =>
         /\ Fetched
         /\ pc \notin {"start", "fetch", "filter", "exit1"}
         /\ recent_articles = SelectSeq(all_articles, InWindow)
    /\ (\E c \in issued : c.stage = "summarize") =>
         /\ StageCalls("score", Len(recent_articles)) \subseteq settled
         /\ Len(scored_articles) = Len(recent_articles)
         /\ top_articles_data = Slice(scored_articles, args_top_n)
    /\ HighlightsCall \in issued =>
         /\ StageCalls("summarize", Len(top_articles_data)) \subseteq settled
         /\ Len(final_articles) = Len(top_articles_data)
    /\ pc \in {"report", "done"} => issued = settled

C14_ReportIssuesNoCall ==
    pc = "report" => (issued' = issued /\ n_calls' = n_calls /\ settled' = settled)

\* C14: a scoring call is sent only after every feed has been fetched and the
\* time filter has run; a summarization call only after every scoring call
\* has settled and the ranking and the selection are done; the highlights
\* call only after every summarization call has settled; and the report step
\* sends no call.
C14_PhasesInSequence == []C14_Order /\ [][C14_ReportIssuesNoCall]_vars

\* a run with a failed feed, more than one wave in both AI stages, to its end
C14_Witness ==
    /\ pc = "done"
    /\ \E f \in Feeds : IsFailure(net[f])
    /\ NumBatches(Len(recent_articles)) > MAX_CONCURRENT_REQUESTS
    /\ NumBatches(Len(top_articles_data)) > MAX_CONCURRENT_REQUESTS
    /\ HighlightsCall \in settled

\* C19: the run exits with status 1, having sent no AI call and written no
\* report, when the API key is missing (before any feed is requested), when
\* no article was fetched and when no article survives the time filter; it
\* goes on to the scoring stage in no such case.
C19_FatalExits ==
    /\ openai_api_key = "" =>
         /\ pc \in {"start", "exit1"}
         /\ \A f \in Feeds : fut[f] = "pending"
    /\ pc = "exit1" =>
         /\ issued = {} /\ n_calls = 0
         /\ report = None
         /\ \/ openai_api_key = ""
            \/ Fetched /\ all_articles = <<>>
            \/ Fetched /\ SelectSeq(all_articles, InWindow) = <<>>
    /\ pc \notin {"start", "fetch", "filter", "exit1"} =>
         /\ openai_api_key # ""
         /\ all_articles # <<>>
         /\ recent_articles # <<>>

\* articles were fetched and none survived the filter
C19_Witness ==
    /\ pc = "exit1"
    /\ openai_api_key # ""
    /\ all_articles # <<>>
    /\ \E f \in Feeds : IsFailure(net[f])

C20_CallsOnce ==
    /\ Cardinality(issued) = n_calls
    /\ pc \in {"report", "done"} =>
         /\ issued = StageCalls("score", Len(recent_articles))
                     \cup StageCalls("summarize", Len(top_articles_data))
                     \cup {HighlightsCall}
         /\ n_calls = NumBatches(Len(recent_articles))
                      + NumBatches(Len(top_articles_data)) + 1

C20_FeedOnce ==
    \A f \in Feeds :
        /\ fut[f] # "pending" => fut'[f] # "pending"
        /\ fut[f] = "done" => (fut'[f] = "done" /\ net'[f] = net[f])

\* C20: no feed is requested again once its request has started, also when
\* it failed; no AI call is sent twice; and a run that reaches the report
\* has sent exactly one scoring call per batch of the time-filtered
\* articles, one summarization call per batch of the selected articles and
\* one highlights call.
C20_NoRetry == []C20_CallsOnce /\ [][C20_FeedOnce]_vars

\* a run that ended after a feed and the first scoring batch had failed
C20_Witness ==
    /\ pc = "done"
    /\ \E f \in Feeds : IsFailure(net[f])
    /\ NumBatches(Len(recent_articles)) > MAX_CONCURRENT_REQUESTS
    /\ all_scores[IntKey(0)] = DefaultScore
    /\ all_scores[IntKey(BATCH_SIZE)] # DefaultScore
    /\ n_calls > 2 * MAX_CONCURRENT_REQUESTS

\* ------------------------------------------------------------------------
\* The whole run with its scheduling: the thread pool and the event loop run
\* every step that is ready, every feed request ends (with a response, an
\* error or the timeout) and every AI call returns or raises
\* ------------------------------------------------------------------------
\* Rank, Report and the settling of a call are named here by their guard and
\* by the variable they move (pc, pc and settled): the same steps, enabled
\* in the same states, without the sort, the rendering or the parse of the
\* answer.
RankStep ==
    /\ pc = "score"
    /\ wave_i >= NumBatches(Len(recent_articles))
    /\ pc' = "summarize"

ReportStep == pc = "report" /\ pc' \in {"done", "crashed"}

\* the other steps main_async and the pool threads take on their own
ProgramStep ==
    \/ Start
    \/ \E f \in Feeds : WorkerStart(f)
    \/ \E f \in Feeds : Collect(f)
    \/ FetchReturn
    \/ FilterStep
    \/ ScoreWaveBegin
    \/ \E k \in DOMAIN tasks : IssueCall(k)
    \/ ScoreWaveEnd
    \/ SummarizeWaveBegin
    \/ SummarizeWaveEnd
    \/ Finalize
    \/ HighlightsBegin

\* the request of feed f ends: a response, an error or the timeout
FetchSettles(f) == WorkerFinish(f) /\ net'[f] \in RunOutcomes(f)

\* the AI call of task k returns or raises
CallSettles(k) ==
    /\ pc \in {"score_wait", "summarize_wait"}
    /\ k \in DOMAIN tasks
    /\ tasks[k].st = "inflight"
    /\ \A j \in DOMAIN tasks : tasks[j].st # "new"
    /\ settled' = settled \cup {CallId(tasks[k].batch)}

LiveRun ==
    /\ SpecRun
    /\ WF_vars(ProgramStep)
    /\ WF_pc(RankStep)
    /\ WF_pc(ReportStep)
    /\ \A f \in Feeds : WF_vars(FetchSettles(f))
    /\ \A k \in 1..MAX_CONCURRENT_REQUESTS : WF_settled(CallSettles(k))
    /\ WF_vars(HighlightsSettle)

\* the run has ended: the report is written, or sys.exit(1) was reached
Ended == pc \in {"done", "exit1"}

\* stages in the order main_async runs them
StageNo(stage) == CASE stage = "score" -> 1 [] stage = "summarize" -> 2 [] OTHER -> 3

\* call d belongs to a later wave or a later stage than call c
LaterCall(d, c) ==
    \/ StageNo(d.stage) > StageNo(c.stage)
    \/ d.stage = c.stage /\ WaveOf(d.batch) > WaveOf(c.batch)

\* while a call is unsettled, main_async waits in the gather (or the await)
\* of that call's wave, and no call of a later wave or stage has been sent
StalledBehind(c) ==
    /\ pc = (CASE c.stage = "score" -> "score_wait"
               [] c.stage = "summarize" -> "summarize_wait"
               [] OTHER -> "highlights_wait")
    /\ c.stage # "highlights" => wave_i = WaveOf(c.batch) * MAX_CONCURRENT_REQUESTS
    /\ c.stage = "score" => scored_articles = <<>>
    /\ c.stage # "highlights" => final_articles = <<>>
    /\ report = None
    /\ \A d \in issued : ~LaterCall(d, c)

\* C21: when every feed request and every AI call settles, the run ends with
\* the report written or with a fatal exit; and as long as an AI call has not
\* settled the run stays in that call's wave: no call of a later wave or of a
\* later stage is sent and no later stage starts.
C21_EndsUnlessStalled ==
    /\ <>Ended
    /\ [](\A c \in issued \ settled : StalledBehind(c))

\* the run has ended with the report after a feed failed, the scoring calls
\* filled more than one wave and one of them raised
C21_Witness ==
    /\ pc = "done"
    /\ report # None
    /\ \E f \in Feeds : net[f].kind = "http"
    /\ Cardinality({c \in settled : c.stage = "score"}) > MAX_CONCURRENT_REQUESTS
    /\ \E i \in 0..(Len(recent_articles) - 1) : all_scores[IntKey(i)] = DefaultScore

\* ------------------------------------------------------------------------
\* parse_feed_xml on the text of an RSS document.  The text of an element,
\* as ElementTree hands it over, is [t, depth, code, ds]:
\*   "absent"  no such element, or an element without text
\*   "plain"   ordinary text, code tells one text from another
\*   "markup"  nothing but tags, as a CDATA section can hold
\*   "ref"     the numeric character reference of code, its '&' written as
\*             '&' followed by depth times 'amp;' (depth 0 is '&#code;')
\*   "date"    the date string ds
\* ------------------------------------------------------------------------
MaxCodePoint == 1114111
MaxItems == 2          \* items in one RSS document

AbsentText == [t |-> "absent", depth |-> 0, code |-> 0, ds |-> NoDate]
PlainText(n) == [t |-> "plain", depth |-> 0, code |-> n, ds |-> NoDate]
MarkupText == [t |-> "markup", depth |-> 0, code |-> 0, ds |-> NoDate]
CharRef(depth, code) == [t |-> "ref", depth |-> depth, code |-> code, ds |-> NoDate]
DateText(ds) == [t |-> "date", depth |-> 0, code |-> 0, ds |-> ds]

\* a or b, for two strings
OrText(a, b) == IF a.t # "absent" THEN a ELSE b

\* html.unescape on '&#code;' (codes outside its tables of invalid references)
UnescapeRef(code) ==
    IF code > MaxCodePoint \/ code \in 55296..57343 THEN 65533 ELSE code

\* decode_numeric: chr(int(m.group(1)))
decode_numeric(code) == IF code > MaxCodePoint THEN Raised ELSE Returned(code)

\* str.strip() of a text of one character: 0 is the empty string
StripChar(c) == IF c = 32 THEN 0 ELSE c

\* strip_html: drop the tags, html.unescape, decode what is then '&#n;', strip
strip_html(text) ==
    CASE text.t \in {"absent", "markup"} -> Returned(0)
      [] text.t = "ref" /\ text.depth = 0 -> Returned(StripChar(UnescapeRef(text.code)))
      [] text.t = "ref" /\ text.depth = 1 ->
            LET c == decode_numeric(text.code)
            IN IF c.raised THEN Raised ELSE Returned(StripChar(c.value))
      [] OTHER -> Returned(text.code)

\* the tag of an element: '{uri}local', or 'local' when uri is ""
Tag(uri, local) == <<uri, local>>

DcUri == "http://purl.org/dc/elements/1.1/"

Child(tag, text) == [tag |-> tag, text |-> text]

\* get_tag_content: element.find(tag_name), with '{namespace}' put before
\* tag_name when the root has a namespace, then the text of the child found
get_tag_content(element, tag_name, namespace) ==
    LET found == SelectSeq(element, LAMBDA c : c.tag = Tag(namespace, tag_name))
    IN IF found # <<>> /\ Head(found).text.t # "absent" THEN Head(found).text
       ELSE AbsentText

\* an <item> with a link and the given title, <pubDate>, <dc:date>, <date>
RssItem(ns, title, pubDate, dcDate, date) ==
    SelectSeq(<<Child(Tag(ns, "title"), title),
                Child(Tag(ns, "link"), PlainText(1)),
                Child(Tag(ns, "pubDate"), pubDate),
                Child(Tag(DcUri, "date"), dcDate),
                Child(Tag(ns, "date"), date)>>,
              LAMBDA c : c.text.t # "absent")

\* the body of `for item in items` up to `if title or link`
RssEntry(item, namespace) ==
    LET title == strip_html(get_tag_content(item, "title", namespace))
        link == OrText(get_tag_content(item, "link", namespace),
                       get_tag_content(item, "guid", namespace))
        pub_date_str == OrText(OrText(get_tag_content(item, "pubDate", namespace),
                                      get_tag_content(item, "dc:date", namespace)),
                               get_tag_content(item, "date", namespace))
        description == strip_html(get_tag_content(item, "description", namespace))
    IN IF title.raised \/ description.raised THEN Raised
       ELSE Returned([title |-> title.value, link |-> link.code,
                      desc |-> description.value, date |-> pub_date_str.ds])

RECURSIVE RssEntries(_, _)
RssEntries(items, namespace) ==
    IF items = <<>> THEN Returned(<<>>)
    ELSE LET e == RssEntry(Head(items), namespace)
             rest == RssEntries(Tail(items), namespace)
         IN IF e.raised \/ rest.raised THEN Raised
            ELSE Returned(<<e.value>> \o rest.value)

\* root.findall('item'): the <item> children of the root element
FindItems(xml) == IF xml.root = "channel" THEN xml.items ELSE <<>>

\* parse_feed_xml for a document whose root is no Atom <feed>
parse_rss(xml, f, now) ==
    IF ~xml.wf THEN Returned(<<>>)                   \* except ET.ParseError
    ELSE LET es == RssEntries(FindItems(xml), xml.namespace)
         IN IF es.raised THEN Raised
            ELSE Returned(ParseEntries(es.value, f, now))

\* dates of the three elements: an RFC 822 date, an ISO date, a plain day
PubDateGood == DateText([fmt |-> "rfc_gmt", wall |-> 1, off |-> 0])
DcDateGood == DateText([fmt |-> "iso_off", wall |-> 2, off |-> 0])
DateGood == DateText([fmt |-> "date", wall |-> 0, off |-> 0])
DateGarbage == DateText([fmt |-> "garbage", wall |-> 0, off |-> 0])

Titles ==
    {AbsentText, PlainText(2), MarkupText, CharRef(0, MaxCodePoint + 1),
     CharRef(1, 32), CharRef(1, MaxCodePoint), CharRef(1, MaxCodePoint + 1),
     CharRef(2, MaxCodePoint + 1)}

RssItems(ns) ==
    {RssItem(ns, t, AbsentText, AbsentText, AbsentText) : t \in Titles}
    \cup {RssItem(ns, PlainText(2), p, d, x) :
             p \in {AbsentText, PubDateGood, DateGarbage},
             d \in {AbsentText, DcDateGood},
             x \in {AbsentText, DateGood}}

\* documents: well-formed or not, the items under the root or one level
\* below it (<rss><channel>), the root with or without a default namespace
XmlDocsOf(ns) ==
    {[wf |-> w, root |-> r, namespace |-> ns, items |-> its] :
        w \in BOOLEAN, r \in {"channel", "rss"},
        its \in UNION {[1..k -> RssItems(ns)] : k \in 0..MaxItems}}

XmlDocs == XmlDocsOf("") \cup XmlDocsOf("http://x")

TheXml == net[1].doc

InitParse ==
    /\ pc = "parse"
    /\ clock = DefaultHours
    /\ args_hours = DefaultHours
    /\ args_top_n = DefaultTopN
    /\ openai_api_key = "key"
    /\ fut = [f \in Feeds |-> "running"]
    /\ \E xml \in XmlDocs :
         net = [f \in Feeds |-> IF f = 1 THEN [kind |-> "text", doc |-> xml] ELSE None]
    /\ fut_result = [f \in Feeds |-> None]
    /\ collected = {}
    /\ all_articles = <<>>
    /\ success_count = 0
    /\ fail_count = 0
    /\ recent_articles = <<>>
    /\ AIIdle

\* fetch_feed: return parse_feed_xml(xml_content, feed)
ParseStep ==
    /\ pc = "parse"
    /\ fut_result' = [fut_result EXCEPT ![1] = parse_rss(TheXml, 1, clock)]
    /\ pc' = "parsed"
    /\ UNCHANGED <<clock, args_hours, args_top_n, openai_api_key, fut, net, collected,
                   all_articles, success_count, fail_count, recent_articles>>
    /\ UNCHANGED aiVars

NextParse == ParseStep

SpecParse == InitParse /\ [][NextParse]_vars

\* ------------------------------------------------------------------------
\* Properties of parse_feed_xml
\* ------------------------------------------------------------------------
\* C22: parse_feed_xml never raises: whatever the text, well-formed or not,
\* whatever its items hold (missing elements, numeric character references
\* of any size, entity-encoded or not), it returns a list of articles, and
\* the empty list for a document that is not well-formed.
C22_ParseNeverRaises ==
    pc = "parsed" =>
        /\ ~fut_result[1].raised
        /\ ~TheXml.wf => fut_result[1].value = <<>>

\* the date string the claim takes for an item: <pubDate>, else <dc:date>,
\* else <date>
ClaimedDateStr(item, ns) ==
    LET texts(tag) == SelectSeq(item, LAMBDA c : c.tag = tag)
        text(tag) == IF texts(tag) = <<>> THEN AbsentText ELSE Head(texts(tag)).text
    IN OrText(OrText(text(Tag(ns, "pubDate")), text(Tag(DcUri, "date"))),
              text(Tag(ns, "date"))).ds

PlainTitles(xml) ==
    \A k \in DOMAIN xml.items :
        get_tag_content(xml.items[k], "title", xml.namespace).t = "plain"

\* C23: every RSS item the loop meets becomes an article, in document
\* order, published at the time its <pubDate> tells, else its <dc:date>,
\* else its <date>, and at the current time when it has none of them or the
\* one it has cannot be parsed.
C23_DateFallback ==
    (pc = "parsed" /\ TheXml.wf /\ TheXml.root = "channel" /\ PlainTitles(TheXml)) =>
        /\ ~fut_result[1].raised
        /\ Len(fut_result[1].value) = Len(TheXml.items)
        /\ \A k \in DOMAIN TheXml.items :
              fut_result[1].value[k].pub_date =
                  PubDate(ClaimedDateStr(TheXml.items[k], TheXml.namespace), clock)

\* ------------------------------------------------------------------------
\* Properties of the keywords, of the report and of completion orders
\* ------------------------------------------------------------------------
\* the keywords of every record that was ranked or went into the report
RecordKeywords ==
    {scored_articles[p].score_data.keywords : p \in DOMAIN scored_articles}
    \cup {final_articles[p].keywords : p \in DOMAIN final_articles}

\* C24: the keywords of every Score Record that is ranked or rendered are a
\* list of at most 4 entries, each of them a string.
C24_KeywordsUpTo4Strings ==
    \A kw \in RecordKeywords :
        /\ Len(kw) <= 4
        /\ \A k \in DOMAIN kw : kw[k].t = "str"

\* the numbered entries of the category sections, in the order they are written
RECURSIVE FlatEntries(_)
FlatEntries(sections) ==
    IF sections = <<>> THEN <<>>
    ELSE Head(sections).entries \o FlatEntries(Tail(sections))

\* position of a selected article in the ranking
RankPos(a) == CHOOSE p \in DOMAIN final_articles : final_articles[p] = a

\* C25: the category sections of the report list every selected article
\* exactly once, numbered 1..N in the order written; every category with a
\* member has one section, the sections are in descending order of their
\* member count, and the articles of a section are in their ranked order.
C25_SectionsListAll ==
    pc = "done" =>
        LET secs == report.sections
            flat == FlatEntries(secs)
        IN /\ Len(flat) = Len(final_articles)
           /\ \A k \in DOMAIN flat : flat[k].num = k
           /\ \A p \in DOMAIN final_articles :
                 Cardinality({k \in DOMAIN flat : flat[k].article = final_articles[p]}) = 1
           /\ \A i \in DOMAIN secs :
                 /\ secs[i].entries # <<>>
                 /\ \A k \in DOMAIN secs[i].entries :
                       secs[i].entries[k].article.category = secs[i].cat
                 /\ \A j \in DOMAIN secs : j # i => secs[j].cat # secs[i].cat
                 /\ i < Len(secs) => Len(secs[i].entries) >= Len(secs[i + 1].entries)
                 /\ \A k \in 1..(Len(secs[i].entries) - 1) :
                       RankPos(secs[i].entries[k].article)
                           < RankPos(secs[i].entries[k + 1].article)

\* a report of at least 5 articles in at least 3 categories whose largest
\* category is not the one of the highest-ranked article
C25_Witness ==
    /\ pc = "done"
    /\ Len(final_articles) >= 5
    /\ Len(report.sections) >= 3
    /\ Len(report.sections[1].entries) > Len(report.sections[Len(report.sections)].entries)
    /\ report.sections[1].cat # final_articles[1].category
    /\ report.sections[1].entries[1].num = 1
    /\ report.sections[1].entries[1].article # final_articles[1]

\* C26: the report has the top-3 showcase exactly when at least 3 articles
\* were selected; the showcase then has three entries, the articles ranked
\* first, second and third in this order, with the gold, the silver and the
\* bronze medal, and no selected article outside it has a higher score.
C26_ShowcaseIffThree ==
    pc = "done" =>
        /\ report.showcase # <<>> <=> Len(final_articles) >= 3
        /\ report.showcase # <<>> =>
             /\ Len(report.showcase) = 3
             /\ \A i \in 1..3 :
                   /\ report.showcase[i].article = final_articles[i]
                   /\ report.showcase[i].article.title = scored_articles[i].article.title
                   /\ report.showcase[i].article.score = scored_articles[i].total_score
                   /\ \A p \in (i + 1)..Len(final_articles) :
                         report.showcase[i].article.score >= final_articles[p].score
             /\ <<report.showcase[1].medal, report.showcase[2].medal,
                  report.showcase[3].medal>> = <<"gold", "silver", "bronze">>

\* a report with the showcase whose third article outranks a fourth one
C26_Witness ==
    /\ pc = "done"
    /\ Len(final_articles) > 3
    /\ Len(report.showcase) = 3
    /\ final_articles[1].score > final_articles[3].score
    /\ final_articles[3].score > final_articles[4].score

\* ------------------------------------------------------------------------
\* The run from the fetch phase to the selection, with several feeds holding
\* articles and every article scored by FixedScore
\* ------------------------------------------------------------------------
OrderOutcomes ==
    {[kind |-> "timeout", doc |-> <<>>]}
    \cup {[kind |-> "ok", doc |-> d] : d \in Docs \ {<<>>}}

OrderTopN == {1, DefaultTopN}

InitOrder ==
    /\ pc = "fetch"
    /\ clock = DefaultHours
    /\ args_hours = DefaultHours
    /\ args_top_n \in OrderTopN
    /\ openai_api_key = "key"
    /\ fut = [f \in Feeds |-> "pending"]
    /\ net = [f \in Feeds |-> None]
    /\ fut_result = [f \in Feeds |-> None]
    /\ collected = {}
    /\ all_articles = <<>>
    /\ success_count = 0
    /\ fail_count = 0
    /\ recent_articles = <<>>
    /\ AIIdle

NextOrder ==
    \/ \E f \in Feeds : WorkerStart(f)
    \/ \E f \in Feeds : WorkerFinish(f) /\ net'[f] \in OrderOutcomes
    \/ \E f \in Feeds : Collect(f)
    \/ FetchReturn
    \/ FilterStep
    \/ ScoreWaveBegin
    \/ \E k \in DOMAIN tasks : IssueCall(k) /\ pc = "score_wait"
    \/ \E k \in DOMAIN tasks :
          ScoreSettle(k)
          /\ tasks'[k].resp = FixedAnswer(tasks[k].batch, Len(recent_articles))
    \/ ScoreWaveEnd
    \/ Rank

SpecOrder == InitOrder /\ [][NextOrder]_vars

\* the articles of the feeds in catalog order: what fetch_all_feeds returns
\* when the fetches complete in the order they were submitted
RECURSIVE CatalogOrder(_)
CatalogOrder(f) ==
    IF f > NumFeeds THEN <<>> ELSE fut_result[f].value \o CatalogOrder(f + 1)

\* filter, score by FixedScore, sort, slice: the selection from `articles`
SelectionOf(articles) ==
    LET recent == SelectSeq(articles, InWindow)
        scored == SortDesc([p \in 1..Len(recent) |->
                               [article |-> recent[p],
                                total_score |-> TotalOf(FixedScore(recent[p])),
                                score_data |-> FixedScore(recent[p])]])
        top == Slice(scored, args_top_n)
    IN [p \in 1..Len(top) |-> top[p].article]

ScoresFixed ==
    \A p \in DOMAIN scored_articles :
        scored_articles[p].score_data = FixedScore(scored_articles[p].article)

\* C27: with the feed documents fixed and every article given the score
\* that goes with it, the selected articles and their order are those of
\* the run whose fetches complete in catalog order, in whatever order the
\* fetches of this run completed; any two runs then select the same.
C27_SelectionIgnoresFetchOrder ==
    (pc = "summarize" /\ ScoresFixed) => TopArticles = SelectionOf(CatalogOrder(1))

\* the tasks of a wave whose result holds key
Writers(ts, key) == {k \in DOMAIN ts : key \in DOMAIN ts[k].out.value}

LastWriter(ts, key) == CHOOSE k \in Writers(ts, key) : \A j \in Writers(ts, key) : j <= k

\* the mapping after a wave, key by key: the record of the task submitted
\* last among those that wrote the key, the earlier value where none did
KeyWise(old, ts) ==
    [key \in DOMAIN old \cup UNION {DOMAIN ts[k].out.value : k \in DOMAIN ts} |->
        IF Writers(ts, key) = {} THEN old[key]
        ELSE ts[LastWriter(ts, key)].out.value[key]]

\* the result of a settled task is the one its batch and its answer decide
\* (tasks holds the last scoring wave until the first summarization wave)
OutcomeByAnswer ==
    \A k \in DOMAIN tasks :
        tasks[k].st = "done" =>
            IF pc \in {"score_wait", "score"} \/ (pc = "summarize" /\ wave_i = 0)
            THEN tasks[k].out = score_batch(tasks[k].batch, Len(recent_articles),
                                            tasks[k].resp)
            ELSE tasks[k].out = summarize_batch(tasks[k].batch, TopArticles,
                                                tasks[k].resp)

WaveMergeBySubmission ==
    /\ (pc = "score_wait" /\ pc' = "score") =>
          /\ all_scores' = KeyWise(all_scores, tasks)
          /\ wave_i' = wave_i + MAX_CONCURRENT_REQUESTS
    /\ (pc = "summarize_wait" /\ pc' = "summarize") =>
          /\ summaries' = KeyWise(summaries, tasks)
          /\ wave_i' = wave_i + MAX_CONCURRENT_REQUESTS
    /\ pc \notin {"score_wait", "score"} => all_scores' = all_scores
    /\ pc \notin {"summarize_wait", "summarize"} => summaries' = summaries

\* C28: the mapping a stage builds is decided by the answers its batches
\* received: each task's result by its batch and its answer, each wave merged
\* into the mapping task by task in submission order (on a key written by
\* several tasks the record of the task submitted last is kept), the waves
\* one after the other; the order in which the calls settled plays no part.
C28_MergeBySubmissionOrder == []OutcomeByAnswer /\ [][WaveMergeBySubmission]_vars

\* a scoring wave has been merged in which both tasks wrote one key with
\* different records
C28_Witness ==
    /\ pc = "score"
    /\ wave_i = MAX_CONCURRENT_REQUESTS
    /\ Len(tasks) = MAX_CONCURRENT_REQUESTS
    /\ \E key \in DOMAIN all_scores :
         /\ Writers(tasks, key) = DOMAIN tasks
         /\ tasks[1].out.value[key] # tasks[2].out.value[key]
         /\ all_scores[key] = tasks[2].out.value[key]

====
